---- MODULE Spec2Model ----
(***************************************************************************)
(* State-machine model of the gRPC-C runtime (sxtyxmm/grpc-c).             *)
(*                                                                         *)
(* Part 1: the completion queue (grpc_core.c, stored in src/src/hpack.c    *)
(*         lines 401-510): a singly linked FIFO guarded by cq->mutex and   *)
(*         cq->cond, used by producer threads (completion_queue_push_event)*)
(*         consumer threads (grpc_completion_queue_next) and the           *)
(*         application thread (grpc_completion_queue_shutdown).            *)
(* Part 2: stream-id assignment in grpc_channel_create_call                *)
(*         (grpc_channel.c, stored in src/unnamed/part_006) and            *)
(*         http2_stream_create (src/src/http2_transport.c).                *)
(*                                                                         *)
(* Memory-allocation failure (malloc/calloc/realloc returning NULL) is not *)
(* modelled.                                                               *)
(***************************************************************************)
EXTENDS Integers, Sequences, FiniteSets, TLC

(***************************************************************************)
(* Bounds of the model                                                     *)
(***************************************************************************)
\* total number of completion_queue_push_event calls in a behaviour
MaxEvents == 2
\* the clock runs over 0..MaxTime seconds
MaxTime == 1
\* total number of grpc_channel_create_call calls in a behaviour
MaxCalls == 4
\* total number of http2_flow_control_can_send calls in a behaviour
MaxSends == 2
\* total number of WINDOW_UPDATE frames received in a behaviour
MaxUpdates == 1
\* total number of http2_flow_control_consume_recv_window calls in a behaviour
MaxRecvs == 3

(***************************************************************************)
(* Program constants                                                       *)
(***************************************************************************)
\* event.type written on the timeout path of grpc_completion_queue_next
QUEUE_TIMEOUT_TYPE == 0
\* event.type written on the shutdown path of grpc_completion_queue_next
QUEUE_SHUTDOWN_TYPE == 1
\* event.type written by grpc_call_start_batch / grpc_server_shutdown_and_notify
OP_COMPLETE_TYPE == 1
\* nanoseconds per second: a timespec is valid iff 0 <= tv_nsec < NSEC_PER_SEC
NSEC_PER_SEC == 1000000000
\* conn->next_stream_id of a client connection after http2_connection_create
CLIENT_FIRST_STREAM_ID == 1

\* the NULL tag of a zero-initialised grpc_event
NULL == 0

\* flow_control.c line 13: the window of a new connection and a new stream
HTTP2_DEFAULT_WINDOW_SIZE == 65535
\* 0x7FFFFFFF, the largest int32_t and the largest WINDOW_UPDATE increment
INT32_MAX == 2147483647
INT32_MIN == -INT32_MAX - 1

\* grpc_status_code
GRPC_STATUS_OK == 0
GRPC_STATUS_CANCELLED == 1
GRPC_STATUS_DEADLINE_EXCEEDED == 4

Producers == {"p1", "p2"}
Consumers == {"c1", "c2"}
App == "app"
CQThreads == Producers \cup Consumers \cup {App}
Callers == {"t1", "t2", "t3"}
NoThread == "none"

VARIABLES
    \* ---- completion queue (struct grpc_completion_queue) ----
    cq_queue,        \* the linked list head..tail, as a sequence of grpc_event
    cq_shutdown,     \* cq->shutdown
    cq_mutex,        \* holder of cq->mutex, or NoThread
    cq_waiters,      \* consumers blocked on cq->cond
    pc,              \* position of every completion-queue thread
    push_ev,         \* producer's argument `event`
    ts,              \* consumer's local `ts` (the deadline)
    ev_ptr,          \* consumer's local `ev` (line 473)
    result,          \* the grpc_event a consumer's last call returned
    now,             \* the clock (seconds)
    \* ---- history of the completion queue ----
    tags_issued,     \* number of push calls started (tags are 1..tags_issued)
    pushed,          \* tags in the order they were linked into the list
    delivered,       \* tags in the order events were unlinked
    sd_returned,     \* some next call has returned on the shutdown path
    pushed_at_shutdown, \* Len(pushed) when cq->shutdown was first set, or -1
    call_view,       \* what a next call found when it took the lock
    ret_view,        \* what a next call saw when it returned
    \* ---- channel / connection ----
    next_stream_id,  \* conn->next_stream_id
    chan_mutex,      \* holder of channel->mutex, or NoThread
    streams_mutex,   \* holder of conn->streams_mutex, or NoThread
    conn_streams,    \* conn->streams[0 .. streams_count-1], the stream ids
    cpc,             \* position of every caller of grpc_channel_create_call
    stream_id,       \* caller's local `stream_id` (line 106)
    assigned,        \* ids in the order next_stream_id was advanced for them
    \* ---- calls, streams and the channel's lifetime ----
    call,            \* the grpc_call objects, keyed by their stream's id
    call_mutex,      \* holder of call->mutex of every call, or NoThread
    stream_frees,    \* number of free() calls made on every http2_stream
    chan_state,      \* "live", "destroying" or "destroyed"
    aborted,         \* the allocator has terminated the process
    cur_call,        \* caller's argument `call` of cancel/start_batch/destroy
    destroy_i,       \* loop index i of http2_connection_destroy
    \* ---- batches ----
    batch_ev,        \* caller's local `event` of grpc_call_start_batch
    batch_log,       \* what every start_batch call found and enqueued
    \* ---- HPACK integer codec ----
    hp_pc,           \* "start", "encoded" or "decoded"
    hp_value,        \* argument `value` of hpack_encode_integer (uint32_t)
    hp_prefix,       \* argument `prefix_bits` of both functions
    hp_outlen,       \* argument `output_len` of hpack_encode_integer
    hp_in,           \* argument `input` of hpack_decode_integer
    hp_enc,          \* what hpack_encode_integer returned and wrote
    hp_dec,          \* what hpack_decode_integer returned and stored
    \* ---- HPACK metadata codec ----
    md_pc,           \* "start", "encoded" or "decoded"
    md_in,           \* argument `metadata` of hpack_encode_metadata
    md_outlen,       \* argument `output_len` of hpack_encode_metadata
    md_enc,          \* what hpack_encode_metadata returned and wrote
    md_dec,          \* what hpack_decode_metadata returned and stored
    \* ---- HTTP/2 frames on the socket ----
    fr_pc,           \* position of every caller of http2_connection_send_frame
    fr_hdr,          \* caller's argument `header`
    fr_ret,          \* what the caller's last send_frame call returned
    wire,            \* what was written to the socket and not yet read
    wire_closed,     \* the socket has failed
    frames_started,  \* number of frames whose writing has begun
    rcv_pc,          \* position of the caller of http2_connection_recv_frame
    rcv_hdr,         \* its argument `header`, as far as it was filled in
    recv_log,        \* what every recv_frame call read and returned
    \* ---- server (struct grpc_server) ----
    srv_started,     \* server->started
    srv_shutdown_called, \* server->shutdown_called
    srv_ports,       \* server->ports[0 .. ports_count-1], the port numbers
    srv_cqs,         \* server->cqs[0 .. cqs_count-1]
    worker_threads,  \* server->worker_threads is allocated (not NULL)
    worker_pc,       \* position of every server_worker_thread
    srv_pc,          \* position of the caller of grpc_server_shutdown_and_notify
    srv_i,           \* its loop index i
    srv_cq,          \* its argument `cq`
    srv_tag,         \* its argument `tag`
    srv_calls,       \* number of server API calls made
    srv_last,        \* what the last add_port / register call found and left
    srv_log,         \* what every shutdown_and_notify call found and enqueued
    srv_requested,   \* tags of the grpc_server_request_call calls that returned OK
    srv_backlog,     \* client connections waiting on the listening sockets
    srv_closed,      \* client connections the workers accepted and closed
    \* ---- load balancing policy (struct grpc_lb_policy) ----
    lb_type,         \* policy->type
    lb_addresses,    \* the list policy->addresses, in list order
    lb_current_index,\* policy->current_index
    lb_marks,        \* number of mark_unavailable / mark_available calls
    lb_picks,        \* what every grpc_lb_policy_pick call found and returned
    \* ---- metadata array (struct grpc_metadata_array) ----
    arr_count,       \* array->count
    arr_capacity,    \* array->capacity
    arr_metadata,    \* array->metadata[0 .. count-1]
    arr_last,        \* what the last grpc_metadata_array_add call found and returned
    \* ---- connection pool (struct grpc_connection_pool) ----
    pool_connections,  \* the list pool->connections, head first
    pool_current,      \* pool->current_connections
    pool_max,          \* pool->max_connections
    pool_now,          \* what time(NULL) returns
    pool_made,         \* number of connections http2_connection_create made
    pool_state,        \* "ok", or "undefined" once freed memory was used
    pool_last,         \* what the last pool call was and returned
    \* ---- flow control (send side) ----
    write_mutex,     \* holder of conn->write_mutex, or NoThread
    conn_remote_window_size,   \* conn->remote_window_size (int32_t)
    stream_remote_window_size, \* stream->remote_window_size of every stream
    snd_stream,      \* sender's argument `stream` (its id)
    data_len,        \* sender's argument `data_len` (size_t)
    conn_window,     \* sender's local `conn_window` (line 109)
    stream_window,   \* the value a sender loaded from the stream's window
    rx_pc,           \* position of the thread that reads WINDOW_UPDATE frames
    rx_stream_id,    \* its argument `stream_id`
    rx_increment,    \* its argument `increment` (uint32_t)
    rx_window,       \* the value it loaded from the stream's window
    rx_ret,          \* what its last receive_window_update call returned
    flow_hist,       \* totals of the bytes consumed and increments received
    can_send_view,   \* what the last can_send call read and returned
    \* ---- flow control (receive side) ----
    conn_local_window_size,   \* conn->local_window_size (int32_t)
    stream_local_window_size, \* stream->local_window_size of every stream
    rcv_stream,      \* the reader's argument `stream` of consume_recv_window
    rcv_len,         \* the reader's argument `data_len` (size_t)
    frames_sent,     \* the WINDOW_UPDATE frames written to the socket
    recv_view        \* what the last consume_recv_window call found and did

cqvars == <<cq_queue, cq_shutdown, cq_mutex, cq_waiters, pc, push_ev, ts,
            ev_ptr, result, now, tags_issued, pushed, delivered, sd_returned,
            pushed_at_shutdown, call_view, ret_view>>
connvars == <<next_stream_id, chan_mutex, streams_mutex, conn_streams, cpc,
              stream_id, assigned>>
lifevars == <<call, call_mutex, stream_frees, chan_state, aborted, cur_call,
              destroy_i>>
batchvars == <<batch_ev, batch_log>>
codecvars == <<hp_pc, hp_value, hp_prefix, hp_outlen, hp_in, hp_enc, hp_dec>>
mdvars == <<md_pc, md_in, md_outlen, md_enc, md_dec>>
framevars == <<fr_pc, fr_hdr, fr_ret, wire, wire_closed, frames_started,
               rcv_pc, rcv_hdr, recv_log>>
srvvars == <<srv_started, srv_shutdown_called, srv_ports, srv_cqs,
             worker_threads, worker_pc, srv_pc, srv_i, srv_cq, srv_tag,
             srv_calls, srv_last, srv_log>>
reqvars == <<srv_requested, srv_backlog, srv_closed>>
lbvars == <<lb_type, lb_addresses, lb_current_index, lb_marks, lb_picks>>
arrvars == <<arr_count, arr_capacity, arr_metadata, arr_last>>
poolvars == <<pool_connections, pool_current, pool_max, pool_now, pool_made,
              pool_state, pool_last>>
latevars == <<lbvars, arrvars, poolvars>>
othervars == <<codecvars, mdvars, framevars, srvvars, reqvars, latevars>>
sndvars == <<snd_stream, data_len, conn_window, stream_window>>
rxvars == <<rx_pc, rx_stream_id, rx_increment, rx_window, rx_ret>>
fcghosts == <<flow_hist, can_send_view>>
rcvvars == <<conn_local_window_size, stream_local_window_size, rcv_stream,
             rcv_len, frames_sent, recv_view>>
fcvars == <<write_mutex, conn_remote_window_size, stream_remote_window_size,
            sndvars, rxvars, fcghosts, rcvvars>>
chvars == <<connvars, lifevars, batchvars, othervars, fcvars>>
vars == <<cqvars, chvars>>

(***************************************************************************)
(* grpc_event and grpc_timespec values                                     *)
(***************************************************************************)
Event(type, success, tag) == [type |-> type, success |-> success, tag |-> tag]

\* grpc_event event = {0};
ZeroEvent == Event(0, FALSE, NULL)

\* lines 459-460: event.type = 0; event.success = false;
TimeoutEvent == [ZeroEvent EXCEPT !.type = QUEUE_TIMEOUT_TYPE, !.success = FALSE]

\* lines 467-468: event.type = 1; event.success = false;
ShutdownEvent == [ZeroEvent EXCEPT !.type = QUEUE_SHUTDOWN_TYPE, !.success = FALSE]

\* the event grpc_call_start_batch builds for a batch tag
OpCompleteEvent(tag) == Event(OP_COMPLETE_TYPE, TRUE, tag)

\* deadlines a caller can pass: any whole second (MaxTime + 1 is never
\* reached by the clock), and one timespec whose tv_nsec is out of range
Deadlines ==
    {[tv_sec |-> s, tv_nsec |-> 0] : s \in 0..(MaxTime + 1)}
    \cup {[tv_sec |-> MaxTime + 1, tv_nsec |-> NSEC_PER_SEC]}

\* the instant a timespec denotes: whole seconds, and the nanoseconds beyond
\* them (the clock itself reads whole seconds)
WholeSecs(t) == t.tv_sec + (t.tv_nsec \div NSEC_PER_SEC)
RestNanos(t) == t.tv_nsec % NSEC_PER_SEC

\* pthread_cond_timedwait fails with EINVAL for an out-of-range tv_nsec
TimespecValid(t) == t.tv_nsec >= 0 /\ t.tv_nsec < NSEC_PER_SEC

\* a timed wait that never times out
NeverExpired(t, n) == FALSE

\* pthread_cond_timedwait fails with ETIMEDOUT once abstime has passed
Expired(t, n) ==
    \/ n > WholeSecs(t)
    \/ n = WholeSecs(t) /\ RestNanos(t) = 0

\* the clock reading n is still before the deadline t
BeforeDeadline(n, t) ==
    \/ n < WholeSecs(t)
    \/ n = WholeSecs(t) /\ RestNanos(t) > 0

(***************************************************************************)
(* The queue operations, as the code computes them                         *)
(***************************************************************************)
\* a mutex that never excludes anybody
MutexNeverHeld(m) == TRUE

\* pthread_mutex_lock returns only while nobody holds the mutex
MutexFree(m) == m = NoThread

\* the node linked in front of cq->head instead
EnqueueFront(q, e) == <<e>> \o q

\* lines 431-436: link ev behind cq->tail (or as cq->head when empty)
EnqueueTail(q, e) == Append(q, e)

\* line 455: while (!cq->head && !cq->shutdown)
MustWait(q, sd) == q = <<>> /\ ~sd

\* the shutdown test without its !cq->head
ShutdownOnly(q, sd) == sd

\* line 466: if (cq->shutdown && !cq->head)
ShutdownAndEmpty(q, sd) == sd /\ q = <<>>

\* the node at the tail taken instead of the one at the head
TailNode(q) == q[Len(q)]

\* line 473: ev = cq->head
HeadNode(q) == Head(q)

\* lines 474-477: cq->head = ev->next (tail cleared when the list empties):
\* the list that follows node ev
UnlinkHead(q, e) ==
    IF \E i \in DOMAIN q : q[i] = e
    THEN SubSeq(q, (CHOOSE i \in DOMAIN q : q[i] = e) + 1, Len(q))
    ELSE <<>>

\* line 437: pthread_cond_signal wakes one waiter, if there is any
SignalChoices(ws) == IF ws = {} THEN {{}} ELSE {{w} : w \in ws}

\* pthread_cond_signal in the place of the broadcast
SignalOneWoken(ws) == IF ws = {} THEN {} ELSE {CHOOSE w \in ws : TRUE}

\* line 491: pthread_cond_broadcast wakes every waiter
BroadcastWoken(ws) == ws

NoCall == [called |-> FALSE, empty |-> FALSE, sd |-> FALSE, past |-> FALSE]
NoView == [qlen |-> 0, head |-> NULL, sd |-> FALSE, at |-> 0, path |-> "none"]
NoDeadline == [tv_sec |-> 0, tv_nsec |-> 0]
View(q, sd, n, path) ==
    [qlen |-> Len(q), head |-> IF q = <<>> THEN NULL ELSE Head(q).tag,
     sd |-> sd, at |-> n, path |-> path]

(***************************************************************************)
(* grpc_call objects (struct grpc_call) and their streams                  *)
(***************************************************************************)
\* the stream ids a client connection can hand out within the bounds
StreamIds == {CLIENT_FIRST_STREAM_ID + 2 * i : i \in 0..(MaxCalls - 1)}

\* the deadline given to grpc_channel_create_call: the instant the clock
\* stops at, so that a call is seen both before and at its deadline
CallDeadlines == {[tv_sec |-> MaxTime, tv_nsec |-> 0]}

NoCallObject ==
    [state |-> "none", stream |-> NULL, status |-> GRPC_STATUS_OK,
     cancelled |-> FALSE, deadline |-> NoDeadline]

\* part_006 lines 89-111: the call as grpc_channel_create_call returns it
NewCall(sid, d) ==
    [state |-> "live", stream |-> sid, status |-> GRPC_STATUS_OK,
     cancelled |-> FALSE, deadline |-> d]

LiveCalls == {s \in StreamIds : call[s].state = "live"}

(***************************************************************************)
(* Sizes and 32-bit window arithmetic (flow_control.c)                     *)
(*                                                                         *)
(* A size_t or uint32_t argument is the pair <<hi, lo>> standing for       *)
(* hi * 2^31 + lo with 0 <= lo < 2^31, so that sizes of 2^31 and more are  *)
(* values of the model.  A window is an int32_t.                           *)
(***************************************************************************)
Size(hi, lo) == [hi |-> hi, lo |-> lo]

\* the data_len values a sender passes: less than a window, and the two
\* sizes of 2^31 and 2^32 + 5 bytes
DataLens == {Size(0, 40000), Size(1, 0), Size(2, 5)}

\* the increments a WINDOW_UPDATE frame carries: 0, a small one, the largest
\* legal one and 2^31
Increments == {Size(0, 0), Size(0, 30000), Size(0, INT32_MAX), Size(1, 0)}

\* the stream ids a WINDOW_UPDATE frame carries: 0 is the connection, the
\* others are the first stream and the last one, which conn->streams lacks
\* until the last call is created
UpdateTargets ==
    {0, CLIENT_FIRST_STREAM_ID, CLIENT_FIRST_STREAM_ID + 2 * (MaxCalls - 1)}

\* n <= w for a size n and a window w, as numbers
SizeLeq(n, w) == n.hi = 0 /\ n.lo <= w

\* (int32_t)n of line 115: the low 32 bits of n, read as a signed number
ToInt32(n) == IF n.hi % 2 = 0 THEN n.lo ELSE n.lo + INT32_MIN

\* a - b for two int32_t values, reduced modulo 2^32 into the int32_t range
WrapSub(a, b) ==
    IF b >= 0
    THEN IF a >= INT32_MIN + b
         THEN a - b
         ELSE ((a + INT32_MAX + 1) - b) + INT32_MAX + 1
    ELSE IF a <= INT32_MAX + b
         THEN a - b
         ELSE ((a - INT32_MAX - 1) - b) + INT32_MIN

\* lines 135 and 138: window -= data_len.  The window is converted to
\* size_t, the difference is taken modulo 2^64 and stored back into the
\* int32_t, which keeps its low 32 bits
SubSize(w, n) == WrapSub(w, ToInt32(n))

\* lines 60 and 81: window += increment for an increment in 1..0x7FFFFFFF.
\* The sum is taken in uint32_t and stored back into the int32_t
AddIncrement(w, inc) ==
    IF w <= INT32_MAX - inc
    THEN w + inc
    ELSE (w + INT32_MIN) + (inc + INT32_MIN)

\* line 53: increment == 0 || increment > 0x7FFFFFFF
IncrementRejected(inc) == inc.hi # 0 \/ inc.lo = 0

\* lines 63 and 84: if (window > 0x7FFFFFFF) return -1; window is an int32_t
UpdateResult(w) == IF w > INT32_MAX THEN -1 ELSE 0

\* line 115: (int32_t)data_len <= conn_window && (int32_t)data_len <=
\* stream_window
CanSend(cw, sw, n) == ToInt32(n) <= cw /\ ToInt32(n) <= sw

\* the streams reachable through conn->streams
RegisteredStreams == {conn_streams[i] : i \in 1..Len(conn_streams)}

NoSendView == [n |-> Size(0, 0), conn |-> 0, stream |-> 0, ret |-> -1]

\* a consume_recv_window call as it began: its arguments, both local
\* windows and the number of frames already written
RecvView(s, n, cw, sw, frames) ==
    [stream |-> s, n |-> n, conn |-> cw, swin |-> sw, frames |-> frames,
     done |-> FALSE, ret |-> 0]
NoRecvView == RecvView(NULL, Size(0, 0), 0, 0, 0)

\* the view of a call that has returned r
RecvReturned(view, r) == [view EXCEPT !.done = TRUE, !.ret = r]

(***************************************************************************)
(* HPACK integers (src/src/hpack.c lines 95-162)                           *)
(*                                                                         *)
(* A uint32_t is a Size pair with hi in {0, 1}; bytes are 0..255.          *)
(***************************************************************************)
\* line 96 and 133: prefix_bits > 7 is refused
MaxHpackPrefix == 7

\* line 100 and 137: max_prefix = (1U << prefix_bits) - 1
MaxPrefix(p) == 2^p - 1

\* a + b for two pairs, without reduction
PairAdd(a, b) ==
    IF a.lo <= INT32_MAX - b.lo
    THEN Size(a.hi + b.hi, a.lo + b.lo)
    ELSE Size(a.hi + b.hi + 1, (a.lo + INT32_MIN) + b.lo)

\* d * 2^m as a pair, for a 7-bit d and a shift m <= 28
Shifted(d, m) ==
    IF m <= 24 THEN Size(0, d * 2^m)
    ELSE Size(d \div 2^(31 - m), (d % 2^(31 - m)) * 2^m)

\* the low 32 bits of a pair
Wrap32(v) == Size(v.hi % 2, v.lo)

\* line 108: value -= max_prefix, for value >= max_prefix
U32SubSmall(v, k) ==
    IF v.lo >= k THEN Size(v.hi, v.lo - k)
    ELSE Size(v.hi - 1, (v.lo + INT32_MAX - k) + 1)

\* line 113: value >>= 7
Shr7(v) == Size(0, v.hi * 2^24 + v.lo \div 128)

\* lines 110-117: the continuation bytes of value
RECURSIVE EncodeGroups(_)
EncodeGroups(v) ==
    IF v.hi = 0 /\ v.lo < 128
    THEN <<v.lo>>
    ELSE <<(v.lo % 128) + 128>> \o EncodeGroups(Shr7(v))

\* lines 103-117: the bytes hpack_encode_integer writes into a buffer that is
\* long enough
EncodedBytes(value, p) ==
    IF value.hi = 0 /\ value.lo < MaxPrefix(p)
    THEN <<value.lo>>
    ELSE <<MaxPrefix(p)>> \o EncodeGroups(U32SubSmall(value, MaxPrefix(p)))

\* hpack_encode_integer: -1 when a byte does not fit into output_len (lines
\* 104, 107, 111, 116) or on the arguments refused at line 96
hpack_encode_integer(value, p, output_len) ==
    IF output_len = 0 \/ p > MaxHpackPrefix
    THEN [ret |-> -1, bytes |-> <<>>]
    ELSE IF Len(EncodedBytes(value, p)) > output_len
         THEN [ret |-> -1, bytes |-> <<>>]
         ELSE [ret |-> Len(EncodedBytes(value, p)),
               bytes |-> EncodedBytes(value, p)]

\* line 151: the guard taken after a byte with the continuation bit
ShiftGuardEarly(m) == m >= 28
ShiftTooLarge(m) == m > 28

\* lines 147-160: the loop over the continuation bytes; pos counts the bytes
\* read so far, value is kept modulo 2^32
RECURSIVE DecodeLoop(_, _, _, _)
DecodeLoop(input, pos, m, value) ==
    IF pos >= Len(input)
    THEN [ret |-> -1, value |-> value]
    ELSE LET byte == input[pos + 1]
             v == Wrap32(PairAdd(value, Wrap32(Shifted(byte % 128, m))))
         IN IF byte < 128
            THEN [ret |-> pos + 1, value |-> v]
            ELSE IF ShiftTooLarge(m + 7)
                 THEN [ret |-> -1, value |-> v]
                 ELSE DecodeLoop(input, pos + 1, m + 7, v)

\* hpack_decode_integer (lines 132-162)
hpack_decode_integer(input, p) ==
    IF Len(input) = 0 \/ p > MaxHpackPrefix
    THEN [ret |-> -1, value |-> Size(0, 0)]
    ELSE IF input[1] % (MaxPrefix(p) + 1) < MaxPrefix(p)
         THEN [ret |-> 1, value |-> Size(0, input[1] % (MaxPrefix(p) + 1))]
         ELSE DecodeLoop(input, 1, 0, Size(0, MaxPrefix(p)))

\* the values given to the encoder: around every length of the encoding, and
\* up to 2^32 - 1
HpackValues ==
    {Size(0, v) : v \in {0, 1, 2, 6, 7, 30, 31, 126, 127, 128, 254, 255, 256,
                         16383, 16510, 16511, 2097278, 2097279, 268435582,
                         268435583, 1073741824, INT32_MAX}}
    \cup {Size(1, v) : v \in {0, 126, 127, 268435456, INT32_MAX - 1,
                              INT32_MAX}}

\* the prefix sizes and buffer lengths given to the codec
HpackPrefixes == 0..(MaxHpackPrefix + 1)
OutputLens == {0, 2, 6}

\* the byte strings given to the decoder: a first byte with a small value or
\* with every prefix bit set, then up to MaxContinuation bytes
MaxContinuation == 5
ContinuationBytes == {15, 16, 128, 255}
RECURSIVE ByteStrings(_)
ByteStrings(n) ==
    IF n = 0 THEN {<<>>}
    ELSE ByteStrings(n - 1)
         \cup {Append(b, c) : b \in {x \in ByteStrings(n - 1) : Len(x) = n - 1},
                              c \in ContinuationBytes}
DecoderInputs ==
    {<<>>} \cup {<<f>> \o b : f \in {5, 255}, b \in ByteStrings(MaxContinuation)}

NoEncoding == [ret |-> 0, bytes |-> <<>>]
NoDecoding == [ret |-> 0, value |-> Size(0, 0)]

(***************************************************************************)
(* HPACK literal headers and metadata blocks (hpack.c 172-359).  A key is  *)
(* the bytes of a C string; a value is value_length bytes, stored in a     *)
(* buffer of value_length + 1 bytes that ends with a 0 byte                *)
(* (grpc_metadata_array_add).                                              *)
(***************************************************************************)
\* the buffer that holds the bytes of a string
CString(bytes) == bytes \o <<0>>

\* strlen(buf): the number of bytes before the first 0 byte
strlen(buf) ==
    (CHOOSE i \in 1..Len(buf) :
        buf[i] = 0 /\ \A j \in 1..(i - 1) : buf[j] # 0) - 1

\* the bytes a char pointer to buf denotes
StringAt(buf) == SubSeq(buf, 1, strlen(buf))

EncodeFailed == [ret |-> -1, bytes |-> <<>>]

\* hpack_encode_literal_header(name, value, output, output_len): the value
\* returned and the bytes written
hpack_encode_literal_header(name, value, output_len) ==
    LET name_len == strlen(name)
        value_len == strlen(value)
        required == 2 + name_len + value_len
    IN  IF output_len = 0 \/ output_len < required THEN EncodeFailed
        ELSE
        LET nl == hpack_encode_integer(Size(0, name_len), 7, output_len - 1)
        IN  IF nl.ret < 0 THEN EncodeFailed
            ELSE
            LET pos1 == 1 + nl.ret IN
            IF pos1 + name_len > output_len THEN EncodeFailed
            ELSE
            LET pos2 == pos1 + name_len
                vl == hpack_encode_integer(Size(0, value_len), 7,
                                           output_len - pos2)
            IN  IF vl.ret < 0 THEN EncodeFailed
                ELSE
                LET pos3 == pos2 + vl.ret IN
                IF pos3 + value_len > output_len THEN EncodeFailed
                ELSE [ret |-> pos3 + value_len,
                      bytes |-> <<0>> \o nl.bytes
                                \o SubSeq(name, 1, name_len) \o vl.bytes
                                \o SubSeq(value, 1, value_len)]

\* the loop of hpack_encode_metadata from entry i on, pos bytes written
RECURSIVE EncodeEntries(_, _, _, _, _)
EncodeEntries(metadata, i, pos, written, output_len) ==
    IF i > Len(metadata) THEN [ret |-> pos, bytes |-> written]
    ELSE LET md == metadata[i]
             e == hpack_encode_literal_header(CString(md.key),
                                              CString(md.value),
                                              output_len - pos)
         IN  IF e.ret < 0 THEN EncodeFailed
             ELSE EncodeEntries(metadata, i + 1, pos + e.ret,
                                written \o e.bytes, output_len)

\* hpack_encode_metadata(metadata, output, output_len)
hpack_encode_metadata(metadata, output_len) ==
    EncodeEntries(metadata, 1, 0, <<>>, output_len)

HeaderFailed == [ret |-> -1, key |-> <<>>, value |-> <<>>]

\* hpack_decode_literal_header(input, input_len, key, value): the value
\* returned and the two buffers allocated
hpack_decode_literal_header(input) ==
    LET input_len == Len(input) IN
    IF input_len < 2 THEN HeaderFailed
    ELSE
    LET kl == hpack_decode_integer(SubSeq(input, 2, input_len), 7) IN
    IF kl.ret < 0 THEN HeaderFailed
    ELSE
    LET pos1 == 1 + kl.ret IN
    IF kl.value.hi > 0 \/ kl.value.lo > input_len - pos1 THEN HeaderFailed
    ELSE
    LET key_len == kl.value.lo
        pos2 == pos1 + key_len
        vl == hpack_decode_integer(SubSeq(input, pos2 + 1, input_len), 7)
    IN  IF vl.ret < 0 THEN HeaderFailed
        ELSE
        LET pos3 == pos2 + vl.ret IN
        IF vl.value.hi > 0 \/ vl.value.lo > input_len - pos3
        THEN HeaderFailed
        ELSE LET value_len == vl.value.lo IN
             [ret |-> pos3 + value_len,
              key |-> CString(SubSeq(input, pos1 + 1, pos1 + key_len)),
              value |-> CString(SubSeq(input, pos3 + 1, pos3 + value_len))]

\* the entry hpack_decode_metadata stores for the buffers key and value
DecodedEntry(key, value) ==
    [key |-> StringAt(key), value |-> StringAt(value),
     value_length |-> strlen(value)]

\* the loop of hpack_decode_metadata from offset pos on
RECURSIVE DecodeEntries(_, _, _)
DecodeEntries(input, pos, metadata) ==
    IF pos >= Len(input) THEN [ret |-> 0, metadata |-> metadata]
    ELSE LET h == hpack_decode_literal_header(SubSeq(input, pos + 1,
                                                     Len(input)))
         IN  IF h.ret < 0 THEN [ret |-> -1, metadata |-> <<>>]
             ELSE DecodeEntries(input, pos + h.ret,
                                Append(metadata, DecodedEntry(h.key, h.value)))

\* hpack_decode_metadata(input, input_len, metadata)
hpack_decode_metadata(input) == DecodeEntries(input, 0, <<>>)

\* the metadata arrays given to the codec: keys of 0, 1, 2 and 127 bytes
\* (the last needs a two-byte length), values with and without 0 bytes
MaxEntries == 2
LongKey == [i \in 1..127 |-> 97]
MdKeys == {<<>>, <<97>>, <<97, 98>>, LongKey}
MdValues == {<<>>, <<97>>, <<0>>, <<98, 97>>, <<97, 0, 98>>}
MdEntries ==
    {[key |-> k, value |-> v, value_length |-> Len(v)] :
        k \in MdKeys, v \in MdValues}
RECURSIVE MetadataArrays(_)
MetadataArrays(n) ==
    IF n = 0 THEN {<<>>}
    ELSE MetadataArrays(n - 1)
         \cup {Append(a, e) : a \in {x \in MetadataArrays(n - 1) :
                                         Len(x) = n - 1},
                              e \in MdEntries}
MdOutputLens == {4, 16, 512}
NoBlock == [ret |-> 0, bytes |-> <<>>]
NoMetadata == [ret |-> 0, metadata |-> <<>>]

(***************************************************************************)
(* Initial state: grpc_completion_queue_create, http2_connection_create    *)
(***************************************************************************)
CQInit ==
    /\ cq_queue = <<>>
    /\ cq_shutdown = FALSE
    /\ cq_mutex = NoThread
    /\ cq_waiters = {}
    /\ pc = [t \in CQThreads |-> "idle"]
    /\ push_ev = [p \in Producers |-> ZeroEvent]
    /\ ts = [c \in Consumers |-> NoDeadline]
    /\ ev_ptr = [c \in Consumers |-> ZeroEvent]
    /\ result = [c \in Consumers |-> ZeroEvent]
    /\ now = 0
    /\ tags_issued = 0
    /\ pushed = <<>>
    /\ delivered = <<>>
    /\ sd_returned = FALSE
    /\ pushed_at_shutdown = -1
    /\ call_view = [c \in Consumers |-> NoCall]
    /\ ret_view = [c \in Consumers |-> NoView]

ChanInit ==
    /\ next_stream_id = CLIENT_FIRST_STREAM_ID
    /\ chan_mutex = NoThread
    /\ streams_mutex = NoThread
    /\ conn_streams = <<>>
    /\ cpc = [t \in Callers |-> "idle"]
    /\ stream_id = [t \in Callers |-> 0]
    /\ assigned = <<>>

\* no call exists yet; the channel of grpc_channel_create is live
CallInit ==
    /\ call = [s \in StreamIds |-> NoCallObject]
    /\ call_mutex = [s \in StreamIds |-> NoThread]
    /\ stream_frees = [s \in StreamIds |-> 0]
    /\ chan_state = "live"
    /\ aborted = FALSE
    /\ cur_call = [t \in Callers |-> NULL]
    /\ destroy_i = 0
    /\ batch_ev = [t \in Callers |-> ZeroEvent]
    /\ batch_log = <<>>

\* http2_connection_create line 51 (http2_flow_control_init_connection);
\* a stream's window is set when the stream is created
FlowInit ==
    /\ write_mutex = NoThread
    /\ conn_remote_window_size = HTTP2_DEFAULT_WINDOW_SIZE
    /\ stream_remote_window_size = [s \in StreamIds |-> 0]
    /\ snd_stream = [t \in Callers |-> NULL]
    /\ data_len = [t \in Callers |-> Size(0, 0)]
    /\ conn_window = [t \in Callers |-> 0]
    /\ stream_window = [t \in Callers |-> 0]
    /\ rx_pc = "idle"
    /\ rx_stream_id = 0
    /\ rx_increment = Size(0, 0)
    /\ rx_window = 0
    /\ rx_ret = 0
    /\ flow_hist = [sends |-> 0, updates |-> 0, recvs |-> 0, big |-> FALSE,
                    overflow |-> "none",
                    consumed_conn |-> 0,
                    consumed_stream |-> [s \in StreamIds |-> 0],
                    inc_conn |-> 0,
                    inc_stream |-> [s \in StreamIds |-> 0]]
    /\ can_send_view = NoSendView
    /\ conn_local_window_size = HTTP2_DEFAULT_WINDOW_SIZE
    /\ stream_local_window_size = [s \in StreamIds |-> 0]
    /\ rcv_stream = NULL
    /\ rcv_len = Size(0, 0)
    /\ frames_sent = <<>>
    /\ recv_view = NoRecvView

\* the codec has been given nothing
CodecIdle ==
    /\ hp_pc = "start"
    /\ hp_value = Size(0, 0)
    /\ hp_prefix = 0
    /\ hp_outlen = 0
    /\ hp_in = <<>>
    /\ hp_enc = NoEncoding
    /\ hp_dec = NoDecoding

(***************************************************************************)
(* HTTP/2 frame headers (http2_transport.c 80-156)                         *)
(***************************************************************************)
HTTP2_FRAME_HEADER_SIZE == 9
max_frame_size == 16384

\* a http2_frame_header; stream_id is a uint32_t, kept as its top bit and
\* its low 31 bits
FrameHeader(length, type, flags, id) ==
    [length |-> length, type |-> type, flags |-> flags, stream_id |-> id]

\* lines 86-95: the nine bytes send_frame writes for a header
EncodeFrameHeader(h) ==
    <<(h.length \div 65536) % 256,
      (h.length \div 256) % 256,
      h.length % 256,
      h.type,
      h.flags,
      (h.stream_id.hi * 128 + h.stream_id.lo \div 16777216) % 128,
      (h.stream_id.lo \div 65536) % 256,
      (h.stream_id.lo \div 256) % 256,
      h.stream_id.lo % 256>>

\* line 131: the length recv_frame reads from the first three bytes
DecodeLengthSwapped(b) == b[3] * 65536 + b[2] * 256 + b[1]
DecodeLength(b) == b[1] * 65536 + b[2] * 256 + b[3]

\* lines 131-135: the header recv_frame reads from nine bytes
DecodeFrameHeader(b) ==
    FrameHeader(DecodeLength(b), b[4], b[5],
                Size(0, (b[6] % 128) * 16777216 + b[7] * 65536 + b[8] * 256
                        + b[9]))

\* the headers given to send_frame, and the headers another HTTP/2
\* implementation writes: the reserved bit set, a length above
\* max_frame_size
MaxFrames == 2
Writers == {"w1", "w2"}
FrameLengths == {0, max_frame_size, max_frame_size + 1, 16777215}
FrameTypes == {1, 255}
FrameFlags == {0, 255}
FrameStreamIds == {Size(0, 0), Size(0, 1), Size(0, INT32_MAX), Size(1, 1)}
FrameHeaders ==
    {FrameHeader(l, t, f, i) : l \in FrameLengths, t \in FrameTypes,
                               f \in FrameFlags, i \in FrameStreamIds}
PeerHeaders ==
    {<<0, 0, 4, 8, 0, 128, 0, 0, 1>>,
     <<0, 64, 1, 0, 0, 0, 0, 0, 3>>,
     <<0, 64, 1, 0, 1, 255, 255, 255, 255>>}
ZeroHeader == FrameHeader(0, 0, 0, Size(0, 0))
\* what one send() call wrote: the nine header bytes or the n bytes of a
\* payload, with the thread that wrote them
HeaderChunk(by, bytes, from_send, h) ==
    [kind |-> "header", by |-> by, bytes |-> bytes,
     len |-> HTTP2_FRAME_HEADER_SIZE, from_send |-> from_send, sent |-> h]
PayloadChunk(by, n) ==
    [kind |-> "payload", by |-> by, bytes |-> <<>>, len |-> n,
     from_send |-> FALSE, sent |-> ZeroHeader]

\* line 98: pthread_mutex_lock(&conn->write_mutex) returns
WriteLockIgnored(m) == TRUE
WriteLockFree(m) == m = NoThread

\* no frame has been written or read
FrameIdle ==
    /\ fr_pc = [w \in Writers |-> "idle"]
    /\ fr_hdr = [w \in Writers |-> ZeroHeader]
    /\ fr_ret = [w \in Writers |-> 0]
    /\ wire = <<>>
    /\ wire_closed = FALSE
    /\ frames_started = 0
    /\ rcv_pc = "idle"
    /\ rcv_hdr = ZeroHeader
    /\ recv_log = <<>>

(***************************************************************************)
(* The server (grpc_server.c)                                              *)
(***************************************************************************)
GRPC_DEFAULT_WORKER_THREADS == 4
DEFAULT_PORT == 50051
MaxServerCalls == 5
ServerWorkers == 1..GRPC_DEFAULT_WORKER_THREADS

\* the addresses given to add_port, by the port number atoi reads from them
\* ("host" has no colon and gets DEFAULT_PORT), the completion queues and
\* the tags given to the server
PortNumbers == {0, 8080, DEFAULT_PORT, 73616}
\* the ports the kernel assigns when asked to bind port 0
EphemeralPorts == {32768, 60999}
ServerCqs == {1, 2}
ServerTags == {NULL, 7}
BindOutcomes == {TRUE, FALSE}

NoConfigCall ==
    [op |-> "none", started |-> FALSE, ret |-> 0, bound |-> 0,
     ports_before |-> <<>>,
     ports_after |-> <<>>, cqs_before |-> <<>>, cqs_after |-> <<>>]

\* grpc_server_create (lines 25-53)
ServerInit ==
    /\ srv_started = FALSE
    /\ srv_shutdown_called = FALSE
    /\ srv_ports = <<>>
    /\ srv_cqs = <<>>
    /\ worker_threads = FALSE
    /\ worker_pc = [w \in ServerWorkers |-> "none"]
    /\ srv_pc = "idle"
    /\ srv_i = 0
    /\ srv_cq = NULL
    /\ srv_tag = NULL
    /\ srv_calls = 0
    /\ srv_last = NoConfigCall
    /\ srv_log = <<>>
    /\ srv_requested = {}
    /\ srv_backlog = 0
    /\ srv_closed = 0

(***************************************************************************)
(* Load balancing (load_balancing.c)                                       *)
(***************************************************************************)
GRPC_LB_POLICY_ROUND_ROBIN == 0
GRPC_LB_POLICY_PICK_FIRST == 1
GRPC_LB_POLICY_WEIGHTED == 2
LbPolicyTypes == {GRPC_LB_POLICY_ROUND_ROBIN, GRPC_LB_POLICY_PICK_FIRST,
                  GRPC_LB_POLICY_WEIGHTED}
MaxAddresses == 3
MaxPicks == 4
MaxMarks == 2
LbNames == {"a", "b"}
LbWeights == {0, 2}

\* grpc_lb_address_create (lines 46-63)
grpc_lb_address_create(address, weight) ==
    [address |-> address, weight |-> IF weight > 0 THEN weight ELSE 1,
     is_available |-> TRUE]

\* line 91: if (addr->is_available)
AlwaysAvailable(addr) == TRUE
IsAvailable(addr) == addr.is_available

\* line 93: the index the next round-robin pick starts from
SameIndex(current_index, count) == current_index
NextIndex(current_index, count) == (current_index + 1) % count

\* lines 90-103: the loop of grpc_lb_round_robin_pick from list position
\* pos (0 is the NULL pointer); the position of the entry returned, or 0
RECURSIVE RoundRobinScan(_, _, _)
RoundRobinScan(addrs, pos, attempts) ==
    IF pos = 0 \/ attempts >= Len(addrs) THEN 0
    ELSE IF IsAvailable(addrs[pos]) THEN pos
    ELSE RoundRobinScan(addrs, IF pos = Len(addrs) THEN 1 ELSE pos + 1,
                        attempts + 1)

\* grpc_lb_round_robin_pick (lines 75-110): the entry returned (0 for NULL)
\* and the value of current_index after the call
grpc_lb_round_robin_pick(addrs, current_index) ==
    IF addrs = <<>> THEN [result |-> 0, current_index |-> current_index]
    ELSE LET start == IF current_index < Len(addrs)
                      THEN current_index + 1 ELSE 0
             found == RoundRobinScan(addrs, start, 0)
         IN  [result |-> found,
              current_index |-> IF found # 0
                                THEN NextIndex(current_index, Len(addrs))
                                ELSE current_index]

\* lines 125-132: the first available entry from position pos on, or 0
RECURSIVE FirstAvailable(_, _)
FirstAvailable(addrs, pos) ==
    IF pos > Len(addrs) THEN 0
    ELSE IF IsAvailable(addrs[pos]) THEN pos
    ELSE FirstAvailable(addrs, pos + 1)

\* grpc_lb_pick_first_pick (lines 116-135)
grpc_lb_pick_first_pick(addrs) == FirstAvailable(addrs, 1)

\* lines 149-156: the weights of the available entries from pos on, summed
RECURSIVE TotalWeight(_, _)
TotalWeight(addrs, pos) ==
    IF pos > Len(addrs) THEN 0
    ELSE (IF IsAvailable(addrs[pos]) THEN addrs[pos].weight ELSE 0)
         + TotalWeight(addrs, pos + 1)

\* lines 167-177: the entry at which current_weight passes random_weight
RECURSIVE WeightedScan(_, _, _, _)
WeightedScan(addrs, pos, current_weight, random_weight) ==
    IF pos > Len(addrs) THEN 0
    ELSE IF IsAvailable(addrs[pos])
         THEN IF current_weight + addrs[pos].weight > random_weight THEN pos
              ELSE WeightedScan(addrs, pos + 1,
                                current_weight + addrs[pos].weight,
                                random_weight)
         ELSE WeightedScan(addrs, pos + 1, current_weight, random_weight)

\* grpc_lb_weighted_pick (lines 141-181): the entries it can return, one for
\* every value of rand() % total_weight
grpc_lb_weighted_pick(addrs) ==
    IF addrs = <<>> \/ TotalWeight(addrs, 1) = 0 THEN {0}
    ELSE {WeightedScan(addrs, 1, 0, rw) :
              rw \in 0..(TotalWeight(addrs, 1) - 1)}

\* lines 258-266, 279-287: the first entry whose address equals `address`
RECURSIVE FindAddress(_, _, _)
FindAddress(addrs, pos, address) ==
    IF pos > Len(addrs) THEN 0
    ELSE IF addrs[pos].address = address THEN pos
    ELSE FindAddress(addrs, pos + 1, address)

\* what a pick call found and returned
Picked(res, addrs) ==
    [result |-> res, count |-> Len(addrs),
     available |-> {i \in 1..Len(addrs) : addrs[i].is_available}]

\* grpc_lb_policy_create (lines 187-203), for a round-robin policy
LbIdle ==
    /\ lb_type = GRPC_LB_POLICY_ROUND_ROBIN
    /\ lb_addresses = <<>>
    /\ lb_current_index = 0
    /\ lb_marks = 0
    /\ lb_picks = <<>>

NoAdd == [op |-> "none"]

\* grpc_metadata_array_init(array, 0) (part_007 lines 19-33)
ArrIdle ==
    /\ arr_count = 0
    /\ arr_capacity = 16
    /\ arr_metadata = <<>>
    /\ arr_last = NoAdd

\* grpc_connection_pool_create(0, 0) (connection_pool.c lines 136-158)
PoolIdle ==
    /\ pool_connections = <<>>
    /\ pool_current = 0
    /\ pool_max = 10
    /\ pool_now = 0
    /\ pool_made = 0
    /\ pool_state = "ok"
    /\ pool_last = [op |-> "none"]

LateIdle == LbIdle /\ ArrIdle /\ PoolIdle

\* the metadata codec has been given nothing
MdIdle ==
    /\ md_pc = "start"
    /\ md_in = <<>>
    /\ md_outlen = 0
    /\ md_enc = NoBlock
    /\ md_dec = NoMetadata

Init ==
    /\ CQInit /\ ChanInit /\ CallInit /\ FlowInit /\ CodecIdle /\ MdIdle
    /\ FrameIdle /\ ServerInit /\ LateIdle

\* the codec is given a value to encode and decode again, or a byte string
\* to decode
HpackInit ==
    /\ CQInit /\ ChanInit /\ CallInit /\ FlowInit /\ MdIdle /\ FrameIdle
    /\ ServerInit /\ LateIdle
    /\ hp_pc = "start"
    /\ hp_prefix \in HpackPrefixes
    /\ hp_enc = NoEncoding
    /\ hp_dec = NoDecoding
    /\ \/ /\ hp_value \in HpackValues
          /\ hp_outlen \in OutputLens
          /\ hp_in = <<>>
       \/ /\ hp_value = Size(0, 0)
          /\ hp_outlen = 0
          /\ hp_in \in DecoderInputs

histvars == <<tags_issued, pushed, delivered, sd_returned, pushed_at_shutdown,
              call_view, ret_view>>

(***************************************************************************)
(* completion_queue_push_event (hpack.c 421-439)                           *)
(***************************************************************************)
\* lines 421-430: allocate the node, copy the caller's event into it, take
\* cq->mutex
push_event_lock(p) ==
    /\ pc[p] = "idle"
    /\ tags_issued < MaxEvents
    /\ MutexFree(cq_mutex)
    /\ cq_mutex' = p
    /\ tags_issued' = tags_issued + 1
    /\ push_ev' = [push_ev EXCEPT ![p] = OpCompleteEvent(tags_issued + 1)]
    /\ pc' = [pc EXCEPT ![p] = "push_locked"]
    /\ UNCHANGED <<cq_queue, cq_shutdown, cq_waiters, ts, ev_ptr, result, now,
                   pushed, delivered, sd_returned, pushed_at_shutdown,
                   call_view, ret_view,
                   chvars>>

\* lines 431-438: link the node at the tail, signal, unlock
push_event_append(p) ==
    /\ pc[p] = "push_locked"
    /\ cq_queue' = EnqueueTail(cq_queue, push_ev[p])
    /\ pushed' = Append(pushed, push_ev[p].tag)
    /\ \E woken \in SignalChoices(cq_waiters) :
          /\ cq_waiters' = cq_waiters \ woken
          /\ pc' = [t \in CQThreads |->
                      IF t = p THEN "idle"
                      ELSE IF t \in woken THEN "woken" ELSE pc[t]]
    /\ cq_mutex' = NoThread
    /\ push_ev' = [push_ev EXCEPT ![p] = ZeroEvent]
    /\ UNCHANGED <<cq_shutdown, ts, ev_ptr, result, now, tags_issued,
                   delivered, sd_returned, pushed_at_shutdown, call_view,
                   ret_view,
                   chvars>>

(***************************************************************************)
(* grpc_completion_queue_next (hpack.c 441-484)                            *)
(***************************************************************************)
\* lines 441-453: take cq->mutex, copy the deadline into ts
cq_next_lock(c) ==
    /\ pc[c] = "idle"
    /\ MutexFree(cq_mutex)
    /\ \E d \in Deadlines :
          /\ ts' = [ts EXCEPT ![c] = d]
          /\ call_view' = [call_view EXCEPT ![c] =
                               [called |-> TRUE, empty |-> cq_queue = <<>>,
                                sd |-> cq_shutdown,
                                past |-> ~BeforeDeadline(now, d)]]
    /\ cq_mutex' = c
    /\ pc' = [pc EXCEPT ![c] = "loop"]
    /\ UNCHANGED <<cq_queue, cq_shutdown, cq_waiters, push_ev, ev_ptr, result,
                   now, tags_issued, pushed, delivered, sd_returned,
                   pushed_at_shutdown, ret_view,
                   chvars>>

\* lines 455-463 with pthread_cond_timedwait failing at once with EINVAL:
\* ret != 0, so the timeout event is returned
cq_next_einval(c) ==
    /\ pc[c] = "loop"
    /\ MustWait(cq_queue, cq_shutdown)
    /\ ~TimespecValid(ts[c])
    /\ result' = [result EXCEPT ![c] = TimeoutEvent]
    /\ ret_view' = [ret_view EXCEPT ![c] = View(cq_queue, cq_shutdown, now, "timeout")]
    /\ cq_mutex' = NoThread
    /\ pc' = [pc EXCEPT ![c] = "returned"]
    /\ UNCHANGED <<cq_queue, cq_shutdown, cq_waiters, push_ev, ts, ev_ptr, now,
                   tags_issued, pushed, delivered, sd_returned,
                   pushed_at_shutdown, call_view,
                   chvars>>

\* lines 455-456: the loop condition holds; pthread_cond_timedwait releases
\* cq->mutex and either blocks on cq->cond or, abstime having passed already,
\* times out without blocking
cq_next_wait(c) ==
    /\ pc[c] = "loop"
    /\ MustWait(cq_queue, cq_shutdown)
    /\ TimespecValid(ts[c])
    /\ cq_mutex' = NoThread
    /\ IF Expired(ts[c], now)
       THEN /\ pc' = [pc EXCEPT ![c] = "timedout"]
            /\ UNCHANGED cq_waiters
       ELSE /\ pc' = [pc EXCEPT ![c] = "waiting"]
            /\ cq_waiters' = cq_waiters \cup {c}
    /\ UNCHANGED <<cq_queue, cq_shutdown, push_ev, ts, ev_ptr, result, now,
                   histvars,
                   chvars>>

\* pthread_cond_timedwait: abstime passes while the consumer is blocked
cq_next_timedout(c) ==
    /\ pc[c] = "waiting"
    /\ c \in cq_waiters
    /\ Expired(ts[c], now)
    /\ cq_waiters' = cq_waiters \ {c}
    /\ pc' = [pc EXCEPT ![c] = "timedout"]
    /\ UNCHANGED <<cq_queue, cq_shutdown, cq_mutex, push_ev, ts, ev_ptr, result,
                   now, histvars,
                   chvars>>

\* pthread_cond_timedwait: a spurious wakeup, which POSIX permits
cq_next_spurious(c) ==
    /\ pc[c] = "waiting"
    /\ c \in cq_waiters
    /\ cq_waiters' = cq_waiters \ {c}
    /\ pc' = [pc EXCEPT ![c] = "woken"]
    /\ UNCHANGED <<cq_queue, cq_shutdown, cq_mutex, push_ev, ts, ev_ptr, result,
                   now, histvars,
                   chvars>>

\* pthread_cond_timedwait returns 0: cq->mutex is re-acquired and the loop
\* condition of line 455 is evaluated again
cq_next_reacquire(c) ==
    /\ pc[c] = "woken"
    /\ MutexFree(cq_mutex)
    /\ cq_mutex' = c
    /\ pc' = [pc EXCEPT ![c] = "loop"]
    /\ UNCHANGED <<cq_queue, cq_shutdown, cq_waiters, push_ev, ts, ev_ptr,
                   result, now, histvars,
                   chvars>>

\* pthread_cond_timedwait returns ETIMEDOUT: cq->mutex is re-acquired and
\* lines 457-462 return the timeout event without looking at the queue
cq_next_return_timeout(c) ==
    /\ pc[c] = "timedout"
    /\ MutexFree(cq_mutex)
    /\ result' = [result EXCEPT ![c] = TimeoutEvent]
    /\ ret_view' = [ret_view EXCEPT ![c] = View(cq_queue, cq_shutdown, now, "timeout")]
    /\ pc' = [pc EXCEPT ![c] = "returned"]
    /\ UNCHANGED <<cq_queue, cq_shutdown, cq_mutex, cq_waiters, push_ev, ts,
                   ev_ptr, now, tags_issued, pushed, delivered, sd_returned,
                   pushed_at_shutdown, call_view,
                   chvars>>

\* lines 466-471: shut down and empty: return the shutdown event
cq_next_return_shutdown(c) ==
    /\ pc[c] = "loop"
    /\ ~MustWait(cq_queue, cq_shutdown)
    /\ ShutdownAndEmpty(cq_queue, cq_shutdown)
    /\ result' = [result EXCEPT ![c] = ShutdownEvent]
    /\ ret_view' = [ret_view EXCEPT ![c] = View(cq_queue, cq_shutdown, now, "shutdown")]
    /\ sd_returned' = TRUE
    /\ cq_mutex' = NoThread
    /\ pc' = [pc EXCEPT ![c] = "returned"]
    /\ UNCHANGED <<cq_queue, cq_shutdown, cq_waiters, push_ev, ts, ev_ptr, now,
                   tags_issued, pushed, delivered, pushed_at_shutdown,
                   call_view,
                   chvars>>

\* line 473: ev = cq->head
cq_next_take(c) ==
    /\ pc[c] = "loop"
    /\ ~MustWait(cq_queue, cq_shutdown)
    /\ ~ShutdownAndEmpty(cq_queue, cq_shutdown)
    /\ cq_queue # <<>>
    /\ ev_ptr' = [ev_ptr EXCEPT ![c] = HeadNode(cq_queue)]
    /\ pc' = [pc EXCEPT ![c] = "unlink"]
    /\ UNCHANGED <<cq_queue, cq_shutdown, cq_mutex, cq_waiters, push_ev, ts,
                   result, now, histvars,
                   chvars>>

\* lines 474-483: unlink the head node, return its event, unlock
cq_next_unlink(c) ==
    /\ pc[c] = "unlink"
    /\ result' = [result EXCEPT ![c] = ev_ptr[c]]
    /\ ret_view' = [ret_view EXCEPT ![c] = View(cq_queue, cq_shutdown, now, "event")]
    /\ cq_queue' = UnlinkHead(cq_queue, ev_ptr[c])
    /\ delivered' = Append(delivered, ev_ptr[c].tag)
    /\ cq_mutex' = NoThread
    /\ pc' = [pc EXCEPT ![c] = "returned"]
    /\ UNCHANGED <<cq_shutdown, cq_waiters, push_ev, ts, ev_ptr, now,
                   tags_issued, pushed, sd_returned, pushed_at_shutdown,
                   call_view,
                   chvars>>

\* the caller has the returned grpc_event; the locals of the call are gone
cq_next_done(c) ==
    /\ pc[c] = "returned"
    /\ pc' = [pc EXCEPT ![c] = "idle"]
    /\ result' = [result EXCEPT ![c] = ZeroEvent]
    /\ ts' = [ts EXCEPT ![c] = NoDeadline]
    /\ ev_ptr' = [ev_ptr EXCEPT ![c] = ZeroEvent]
    /\ call_view' = [call_view EXCEPT ![c] = NoCall]
    /\ ret_view' = [ret_view EXCEPT ![c] = NoView]
    /\ UNCHANGED <<cq_queue, cq_shutdown, cq_mutex, cq_waiters, push_ev, now,
                   tags_issued, pushed, delivered, sd_returned,
                   pushed_at_shutdown,
                   chvars>>

(***************************************************************************)
(* grpc_completion_queue_shutdown (hpack.c 486-493)                        *)
(***************************************************************************)
\* lines 486-489: take cq->mutex
cq_shutdown_lock ==
    /\ pc[App] = "idle"
    /\ MutexFree(cq_mutex)
    /\ cq_mutex' = App
    /\ pc' = [pc EXCEPT ![App] = "sd_locked"]
    /\ UNCHANGED <<cq_queue, cq_shutdown, cq_waiters, push_ev, ts, ev_ptr,
                   result, now, histvars,
                   chvars>>

\* line 490: cq->shutdown = true
cq_shutdown_set ==
    /\ pc[App] = "sd_locked"
    /\ cq_shutdown' = TRUE
    /\ pushed_at_shutdown' =
          IF cq_shutdown THEN pushed_at_shutdown ELSE Len(pushed)
    /\ pc' = [pc EXCEPT ![App] = "sd_flagged"]
    /\ UNCHANGED <<cq_queue, cq_mutex, cq_waiters, push_ev, ts, ev_ptr, result,
                   now, tags_issued, pushed, delivered, sd_returned, call_view,
                   ret_view,
                   chvars>>

\* lines 491-492: broadcast, unlock
cq_shutdown_broadcast ==
    /\ pc[App] = "sd_flagged"
    /\ LET woken == BroadcastWoken(cq_waiters) IN
          /\ cq_waiters' = cq_waiters \ woken
          /\ pc' = [t \in CQThreads |->
                      IF t = App THEN "idle"
                      ELSE IF t \in woken THEN "woken" ELSE pc[t]]
    /\ cq_mutex' = NoThread
    /\ UNCHANGED <<cq_queue, cq_shutdown, push_ev, ts, ev_ptr, result, now,
                   histvars,
                   chvars>>

\* the clock advances
Tick ==
    /\ now < MaxTime
    /\ now' = now + 1
    /\ UNCHANGED <<cq_queue, cq_shutdown, cq_mutex, cq_waiters, pc, push_ev, ts,
                   ev_ptr, result, histvars,
                   chvars>>

CQNext ==
    \/ \E p \in Producers : push_event_lock(p)
    \/ \E p \in Producers : push_event_append(p)
    \/ \E c \in Consumers : cq_next_lock(c)
    \/ \E c \in Consumers : cq_next_einval(c)
    \/ \E c \in Consumers : cq_next_wait(c)
    \/ \E c \in Consumers : cq_next_timedout(c)
    \/ \E c \in Consumers : cq_next_spurious(c)
    \/ \E c \in Consumers : cq_next_reacquire(c)
    \/ \E c \in Consumers : cq_next_return_timeout(c)
    \/ \E c \in Consumers : cq_next_return_shutdown(c)
    \/ \E c \in Consumers : cq_next_take(c)
    \/ \E c \in Consumers : cq_next_unlink(c)
    \/ \E c \in Consumers : cq_next_done(c)
    \/ cq_shutdown_lock
    \/ cq_shutdown_set
    \/ cq_shutdown_broadcast
    \/ Tick

CQSpec == Init /\ [][CQNext]_vars

(***************************************************************************)
(* grpc_channel_create_call (part_006 74-124) with http2_stream_create     *)
(* (http2_transport.c 162-200)                                             *)
(***************************************************************************)
\* ids handed out so far, or read by a caller that has not yet advanced
\* or registered them
InFlight ==
    {t \in Callers :
        cpc[t] \in {"cc_begin", "cc_locked", "cc_read", "cc_advanced",
                    "sc_locked", "cc_created"}}

\* part_006 line 107: channel->connection->next_stream_id += 2
AdvanceStreamId(id) == id + 2

\* lines 81-101: check the arguments, allocate and fill the call
create_call_begin(t) ==
    /\ cpc[t] = "idle"
    /\ chan_state = "live"
    /\ Len(assigned) + Cardinality(InFlight) < MaxCalls
    /\ cpc' = [cpc EXCEPT ![t] = "cc_begin"]
    /\ UNCHANGED <<next_stream_id, chan_mutex, streams_mutex, conn_streams,
                   stream_id, assigned, cqvars, lifevars, batchvars, othervars, fcvars>>

\* line 104: pthread_mutex_lock(&channel->mutex)
create_call_lock(t) ==
    /\ cpc[t] = "cc_begin"
    /\ MutexFree(chan_mutex)
    /\ chan_mutex' = t
    /\ cpc' = [cpc EXCEPT ![t] = "cc_locked"]
    /\ UNCHANGED <<next_stream_id, streams_mutex, conn_streams, stream_id,
                   assigned,
                   cqvars, lifevars, batchvars, othervars, fcvars>>

\* line 106: uint32_t stream_id = channel->connection->next_stream_id
create_call_read_id(t) ==
    /\ cpc[t] = "cc_locked"
    /\ stream_id' = [stream_id EXCEPT ![t] = next_stream_id]
    /\ cpc' = [cpc EXCEPT ![t] = "cc_read"]
    /\ UNCHANGED <<next_stream_id, chan_mutex, streams_mutex, conn_streams,
                   assigned,
                   cqvars, lifevars, batchvars, othervars, fcvars>>

\* line 107: channel->connection->next_stream_id += 2
create_call_advance(t) ==
    /\ cpc[t] = "cc_read"
    /\ next_stream_id' = AdvanceStreamId(next_stream_id)
    /\ cpc' = [cpc EXCEPT ![t] = "cc_advanced"]
    /\ UNCHANGED <<chan_mutex, streams_mutex, conn_streams, stream_id,
                   assigned,
                   cqvars, lifevars, batchvars, othervars, fcvars>>

\* line 108 and http2_stream_create lines 162-183: allocate the stream,
\* stream->id = stream_id, http2_flow_control_init_stream (line 180), take
\* conn->streams_mutex
http2_stream_create_lock(t) ==
    /\ cpc[t] = "cc_advanced"
    /\ MutexFree(streams_mutex)
    /\ streams_mutex' = t
    /\ assigned' = Append(assigned, stream_id[t])
    /\ stream_remote_window_size' =
          [stream_remote_window_size EXCEPT
              ![stream_id[t]] = HTTP2_DEFAULT_WINDOW_SIZE]
    /\ stream_local_window_size' =
          [stream_local_window_size EXCEPT
              ![stream_id[t]] = HTTP2_DEFAULT_WINDOW_SIZE]
    /\ cpc' = [cpc EXCEPT ![t] = "sc_locked"]
    /\ UNCHANGED <<next_stream_id, chan_mutex, conn_streams, stream_id,
                   cqvars, lifevars, batchvars, othervars, write_mutex,
                   conn_remote_window_size, sndvars, rxvars, fcghosts,
                   conn_local_window_size, rcv_stream, rcv_len, frames_sent,
                   recv_view>>

\* http2_stream_create lines 184-199: conn->streams[streams_count++] = stream
http2_stream_create_add(t) ==
    /\ cpc[t] = "sc_locked"
    /\ conn_streams' = Append(conn_streams, stream_id[t])
    /\ streams_mutex' = NoThread
    /\ cpc' = [cpc EXCEPT ![t] = "cc_created"]
    /\ UNCHANGED <<next_stream_id, chan_mutex, stream_id, assigned,
                   cqvars, lifevars, batchvars, othervars, fcvars>>

\* lines 109-123: call->stream->call = call, release channel->mutex, return
\* the call (its fields were filled in lines 94-100 from the arguments)
create_call_unlock(t) ==
    /\ cpc[t] = "cc_created"
    /\ chan_mutex' = NoThread
    /\ \E d \in CallDeadlines :
          call' = [call EXCEPT ![stream_id[t]] = NewCall(stream_id[t], d)]
    /\ stream_id' = [stream_id EXCEPT ![t] = 0]
    /\ cpc' = [cpc EXCEPT ![t] = "idle"]
    /\ UNCHANGED <<next_stream_id, streams_mutex, conn_streams, assigned,
                   cqvars, call_mutex, stream_frees, chan_state, aborted,
                   cur_call, destroy_i, batchvars, othervars, fcvars>>

(***************************************************************************)
(* grpc_call_destroy (part_006 165-205), http2_stream_destroy              *)
(* (http2_transport.c 202-219), grpc_channel_destroy (part_006 54-68) with *)
(* http2_connection_destroy (http2_transport.c 61-78).  The application    *)
(* destroys a call once and from one thread, and destroys the channel when *)
(* no other call into it is running.                                       *)
(***************************************************************************)
\* free(stream) at line 218 on an object that free() has been called on n
\* times before: the values `aborted` can have afterwards.  A second free is
\* undefined: the allocator may detect it and abort, or go on.
FreeOutcomes(n) == IF n = 0 THEN {FALSE} ELSE {TRUE, FALSE}

\* http2_stream_destroy(stream): release what the stream owns, free(stream)
http2_stream_destroy(sid) ==
    /\ stream_frees' = [stream_frees EXCEPT ![sid] = @ + 1]
    /\ aborted' \in FreeOutcomes(stream_frees[sid])

\* lines 165-174: lock call->mutex, take call->stream into the local
\* `stream`, set call->stream = NULL, unlock
call_destroy_detach(t) ==
    /\ cpc[t] = "idle"
    /\ chan_state = "live"
    /\ ~aborted
    /\ \E c \in LiveCalls :
          /\ \A u \in Callers : cur_call[u] # c
          /\ MutexFree(call_mutex[c])
          /\ cur_call' = [cur_call EXCEPT ![t] = c]
          /\ stream_id' = [stream_id EXCEPT ![t] = call[c].stream]
          /\ call' = [call EXCEPT ![c].state = "destroying", ![c].stream = NULL]
          /\ cpc' = [cpc EXCEPT ![t] =
                        IF call[c].stream # NULL THEN "cd_detached" ELSE "cd_nostream"]
    /\ UNCHANGED <<next_stream_id, chan_mutex, streams_mutex, conn_streams,
                   assigned, cqvars, call_mutex, stream_frees, chan_state,
                   aborted, destroy_i, batchvars, othervars, fcvars>>

\* line 177: http2_stream_destroy(stream), outside call->mutex; the stream
\* stays in conn->streams
call_destroy_stream(t) ==
    /\ cpc[t] = "cd_detached"
    /\ ~aborted
    /\ http2_stream_destroy(stream_id[t])
    /\ cpc' = [cpc EXCEPT ![t] = "cd_nostream"]
    /\ UNCHANGED <<next_stream_id, chan_mutex, streams_mutex, conn_streams,
                   stream_id, assigned, cqvars, call, call_mutex, chan_state,
                   cur_call, destroy_i, batchvars, othervars, fcvars>>

\* lines 179-204: lock call->mutex again, free what the call owns, unlock,
\* destroy the mutex, free(call)
call_destroy_free(t) ==
    /\ cpc[t] = "cd_nostream"
    /\ ~aborted
    /\ MutexFree(call_mutex[cur_call[t]])
    /\ call' = [call EXCEPT ![cur_call[t]].state = "freed"]
    /\ cur_call' = [cur_call EXCEPT ![t] = NULL]
    /\ stream_id' = [stream_id EXCEPT ![t] = 0]
    /\ cpc' = [cpc EXCEPT ![t] = "idle"]
    /\ UNCHANGED <<next_stream_id, chan_mutex, streams_mutex, conn_streams,
                   assigned, cqvars, call_mutex, stream_frees, chan_state,
                   aborted, destroy_i, batchvars, othervars, fcvars>>

\* grpc_channel_destroy lines 54-60 and http2_connection_destroy lines
\* 61-64: lock channel->mutex, then conn->streams_mutex
channel_destroy_lock(t) ==
    /\ \A u \in Callers : cpc[u] = "idle"
    /\ chan_state = "live"
    /\ ~aborted
    /\ MutexFree(chan_mutex)
    /\ MutexFree(streams_mutex)
    /\ chan_mutex' = t
    /\ streams_mutex' = t
    /\ chan_state' = "destroying"
    /\ destroy_i' = 1
    /\ cpc' = [cpc EXCEPT ![t] = "chd_loop"]
    /\ UNCHANGED <<next_stream_id, conn_streams, stream_id, assigned, cqvars,
                   call, call_mutex, stream_frees, aborted, cur_call,
                   batchvars, othervars, fcvars>>

\* http2_connection_destroy lines 65-67: one turn of the loop,
\* http2_stream_destroy(conn->streams[i])
connection_destroy_stream(t) ==
    /\ cpc[t] = "chd_loop"
    /\ ~aborted
    /\ destroy_i <= Len(conn_streams)
    /\ http2_stream_destroy(conn_streams[destroy_i])
    /\ destroy_i' = destroy_i + 1
    /\ UNCHANGED <<next_stream_id, chan_mutex, streams_mutex, conn_streams,
                   cpc, stream_id, assigned, cqvars, call, call_mutex,
                   chan_state, cur_call, batchvars, othervars, fcvars>>

\* http2_connection_destroy lines 68-77 and grpc_channel_destroy lines
\* 63-67: free(conn->streams), unlock, free the connection and the channel
channel_destroy_finish(t) ==
    /\ cpc[t] = "chd_loop"
    /\ ~aborted
    /\ destroy_i > Len(conn_streams)
    /\ conn_streams' = <<>>
    /\ chan_mutex' = NoThread
    /\ streams_mutex' = NoThread
    /\ chan_state' = "destroyed"
    /\ destroy_i' = 0
    /\ cpc' = [cpc EXCEPT ![t] = "idle"]
    /\ UNCHANGED <<next_stream_id, stream_id, assigned, cqvars, call,
                   call_mutex, stream_frees, aborted, cur_call, batchvars, othervars, fcvars>>

ChanNext ==
    \/ \E t \in Callers : call_destroy_detach(t)
    \/ \E t \in Callers : call_destroy_stream(t)
    \/ \E t \in Callers : call_destroy_free(t)
    \/ \E t \in Callers : channel_destroy_lock(t)
    \/ \E t \in Callers : connection_destroy_stream(t)
    \/ \E t \in Callers : channel_destroy_finish(t)
    \/ \E t \in Callers : create_call_begin(t)
    \/ \E t \in Callers : create_call_lock(t)
    \/ \E t \in Callers : create_call_read_id(t)
    \/ \E t \in Callers : create_call_advance(t)
    \/ \E t \in Callers : http2_stream_create_lock(t)
    \/ \E t \in Callers : http2_stream_create_add(t)
    \/ \E t \in Callers : create_call_unlock(t)

ChanSpec == Init /\ [][ChanNext]_vars

(***************************************************************************)
(* grpc_call_cancel (part_006 152-163)                                     *)
(***************************************************************************)
\* a cancel that leaves call->status as it was
StatusKept(s) == s

\* line 159: call->status = GRPC_STATUS_CANCELLED
StatusAfterCancel(s) == GRPC_STATUS_CANCELLED

\* lines 152-157: pthread_mutex_lock(&call->mutex)
cancel_lock(t) ==
    /\ cpc[t] = "idle"
    /\ \E c \in LiveCalls :
          /\ MutexFree(call_mutex[c])
          /\ call_mutex' = [call_mutex EXCEPT ![c] = t]
          /\ cur_call' = [cur_call EXCEPT ![t] = c]
    /\ cpc' = [cpc EXCEPT ![t] = "cn_locked"]
    /\ UNCHANGED <<next_stream_id, chan_mutex, streams_mutex, conn_streams,
                   stream_id, assigned, cqvars, call, stream_frees, chan_state,
                   aborted, destroy_i, batchvars, othervars, fcvars>>

\* line 158: call->cancelled = true
cancel_set_flag(t) ==
    /\ cpc[t] = "cn_locked"
    /\ call' = [call EXCEPT ![cur_call[t]].cancelled = TRUE]
    /\ cpc' = [cpc EXCEPT ![t] = "cn_flagged"]
    /\ UNCHANGED <<next_stream_id, chan_mutex, streams_mutex, conn_streams,
                   stream_id, assigned, cqvars, call_mutex, stream_frees,
                   chan_state, aborted, cur_call, destroy_i, batchvars, othervars, fcvars>>

\* lines 159-162: call->status = GRPC_STATUS_CANCELLED, unlock, return
\* GRPC_CALL_OK
cancel_set_status(t) ==
    /\ cpc[t] = "cn_flagged"
    /\ call' = [call EXCEPT ![cur_call[t]].status = StatusAfterCancel(@)]
    /\ call_mutex' = [call_mutex EXCEPT ![cur_call[t]] = NoThread]
    /\ cur_call' = [cur_call EXCEPT ![t] = NULL]
    /\ cpc' = [cpc EXCEPT ![t] = "idle"]
    /\ UNCHANGED <<next_stream_id, chan_mutex, streams_mutex, conn_streams,
                   stream_id, assigned, cqvars, stream_frees, chan_state,
                   aborted, destroy_i, batchvars, othervars, fcvars>>

(***************************************************************************)
(* grpc_call_start_batch (part_006 126-150) with the                       *)
(* completion_queue_push_event it calls (hpack.c 421-439)                  *)
(***************************************************************************)
\* tags of the batches of call c that are in the queue's history
PushedOf(c) ==
    {batch_log[i].tag : i \in {j \in DOMAIN batch_log :
        batch_log[j].call = c /\ \E k \in DOMAIN pushed : pushed[k] = batch_log[j].tag}}

\* a batch that writes GRPC_STATUS_OK into the call when it completes
CallReopenedByBatch(c) == [c EXCEPT !.status = GRPC_STATUS_OK]

\* lines 126-150 hold no write to *call: the call a batch leaves behind
CallAfterBatch(c) == c

\* lines 126-145: ops and nops are ignored; event = {type 1, success true,
\* tag}
start_batch_begin(t) ==
    /\ cpc[t] = "idle"
    /\ tags_issued < MaxEvents
    /\ \E c \in LiveCalls :
          /\ cur_call' = [cur_call EXCEPT ![t] = c]
          /\ batch_log' = Append(batch_log,
                [tag |-> tags_issued + 1, call |-> c,
                 cancelled |-> call[c].cancelled
                               /\ call[c].status = GRPC_STATUS_CANCELLED,
                 late |-> ~BeforeDeadline(now, call[c].deadline),
                 after |-> PushedOf(c)])
    /\ tags_issued' = tags_issued + 1
    /\ batch_ev' = [batch_ev EXCEPT ![t] = OpCompleteEvent(tags_issued + 1)]
    /\ cpc' = [cpc EXCEPT ![t] = "sb_event"]
    /\ UNCHANGED <<next_stream_id, chan_mutex, streams_mutex, conn_streams,
                   stream_id, assigned, call, call_mutex, stream_frees,
                   chan_state, aborted, destroy_i, fcvars, othervars,
                   cq_queue, cq_shutdown, cq_mutex, cq_waiters, pc, push_ev,
                   ts, ev_ptr, result, now, pushed, delivered, sd_returned,
                   pushed_at_shutdown, call_view, ret_view>>

\* line 147 and hpack.c 421-430: allocate the node, lock cq->mutex
start_batch_push_lock(t) ==
    /\ cpc[t] = "sb_event"
    /\ MutexFree(cq_mutex)
    /\ cq_mutex' = t
    /\ cpc' = [cpc EXCEPT ![t] = "sb_locked"]
    /\ UNCHANGED <<next_stream_id, chan_mutex, streams_mutex, conn_streams,
                   stream_id, assigned, lifevars, batchvars, othervars, fcvars,
                   cq_queue, cq_shutdown, cq_waiters, pc, push_ev, ts, ev_ptr,
                   result, now, histvars>>

\* hpack.c 431-438 and line 149: link the node at the tail, signal, unlock,
\* return GRPC_CALL_OK
start_batch_push_append(t) ==
    /\ cpc[t] = "sb_locked"
    /\ cq_queue' = EnqueueTail(cq_queue, batch_ev[t])
    /\ pushed' = Append(pushed, batch_ev[t].tag)
    /\ \E woken \in SignalChoices(cq_waiters) :
          /\ cq_waiters' = cq_waiters \ woken
          /\ pc' = [x \in CQThreads |-> IF x \in woken THEN "woken" ELSE pc[x]]
    /\ cq_mutex' = NoThread
    /\ call' = [call EXCEPT ![cur_call[t]] = CallAfterBatch(@)]
    /\ batch_ev' = [batch_ev EXCEPT ![t] = ZeroEvent]
    /\ cur_call' = [cur_call EXCEPT ![t] = NULL]
    /\ cpc' = [cpc EXCEPT ![t] = "idle"]
    /\ UNCHANGED <<next_stream_id, chan_mutex, streams_mutex, conn_streams,
                   stream_id, assigned, call_mutex, stream_frees, chan_state,
                   aborted, destroy_i, batch_log, fcvars, othervars,
                   cq_shutdown, push_ev, ts, ev_ptr, result, now, tags_issued,
                   delivered, sd_returned, pushed_at_shutdown, call_view,
                   ret_view>>

\* the threads of the call scenarios: one creates the calls, all of them
\* cancel and submit batches, one consumer drains the queue
Creator == "t1"
Workers == Callers \ {Creator}
Drainer == "c1"

\* calls are created, cancelled and given batches while time passes
CallNext ==
    \/ create_call_begin(Creator)
    \/ create_call_lock(Creator)
    \/ create_call_read_id(Creator)
    \/ create_call_advance(Creator)
    \/ http2_stream_create_lock(Creator)
    \/ http2_stream_create_add(Creator)
    \/ create_call_unlock(Creator)
    \/ \E t \in Workers : cancel_lock(t)
    \/ \E t \in Workers : cancel_set_flag(t)
    \/ \E t \in Workers : cancel_set_status(t)
    \/ \E t \in Workers : start_batch_begin(t)
    \/ \E t \in Workers : start_batch_push_lock(t)
    \/ \E t \in Workers : start_batch_push_append(t)
    \/ Tick

CallSpec == Init /\ [][CallNext]_vars

\* calls are created and given batches while a consumer drains the queue
DrainNext ==
    \/ create_call_begin(Creator)
    \/ create_call_lock(Creator)
    \/ create_call_read_id(Creator)
    \/ create_call_advance(Creator)
    \/ http2_stream_create_lock(Creator)
    \/ http2_stream_create_add(Creator)
    \/ create_call_unlock(Creator)
    \/ \E t \in Workers : start_batch_begin(t)
    \/ \E t \in Workers : start_batch_push_lock(t)
    \/ \E t \in Workers : start_batch_push_append(t)
    \/ cq_next_lock(Drainer)
    \/ cq_next_einval(Drainer)
    \/ cq_next_wait(Drainer)
    \/ cq_next_timedout(Drainer)
    \/ cq_next_spurious(Drainer)
    \/ cq_next_reacquire(Drainer)
    \/ cq_next_return_timeout(Drainer)
    \/ cq_next_take(Drainer)
    \/ cq_next_unlink(Drainer)
    \/ cq_next_done(Drainer)
    \/ Tick

DrainSpec == Init /\ [][DrainNext]_vars

(***************************************************************************)
(* Send-side flow control (src/src/flow_control.c)                         *)
(*                                                                         *)
(* A sender calls http2_flow_control_can_send and, when it returns 1,      *)
(* http2_flow_control_consume_send_window with the same arguments.  The    *)
(* connection's window is accessed under conn->write_mutex; the stream's   *)
(* window is loaded and stored without any lock by the senders, and under  *)
(* conn->streams_mutex by the receiver of WINDOW_UPDATE frames.  The       *)
(* arguments and locals of a call are cleared when the call returns.       *)
(***************************************************************************)
\* lines 103-108: a sender passes call->stream of a call that
\* grpc_channel_create_call has returned and a size, and takes
\* conn->write_mutex
can_send_lock(t) ==
    /\ cpc[t] = "idle"
    /\ flow_hist.sends < MaxSends
    /\ MutexFree(write_mutex)
    /\ \E s \in LiveCalls, n \in DataLens :
          /\ snd_stream' = [snd_stream EXCEPT ![t] = s]
          /\ data_len' = [data_len EXCEPT ![t] = n]
    /\ write_mutex' = t
    /\ flow_hist' = [flow_hist EXCEPT !.sends = @ + 1]
    /\ cpc' = [cpc EXCEPT ![t] = "cs_locked"]
    /\ UNCHANGED <<next_stream_id, chan_mutex, streams_mutex, conn_streams,
                   stream_id, assigned, cqvars, lifevars, batchvars, othervars, rcvvars,
                   conn_remote_window_size, stream_remote_window_size,
                   conn_window, stream_window, rxvars, can_send_view>>

\* lines 109-110: conn_window = conn->remote_window_size; unlock
can_send_read_conn(t) ==
    /\ cpc[t] = "cs_locked"
    /\ conn_window' = [conn_window EXCEPT ![t] = conn_remote_window_size]
    /\ write_mutex' = NoThread
    /\ cpc' = [cpc EXCEPT ![t] = "cs_read"]
    /\ UNCHANGED <<next_stream_id, chan_mutex, streams_mutex, conn_streams,
                   stream_id, assigned, cqvars, lifevars, batchvars, othervars, rcvvars,
                   conn_remote_window_size, stream_remote_window_size,
                   snd_stream, data_len, stream_window, rxvars, fcghosts>>

\* what can_send returns for the windows it read
CanSendResult(cw, sw, n) == IF CanSend(cw, sw, n) THEN 1 ELSE 0

\* lines 112-119: stream_window = stream->remote_window_size; compare and
\* return 1 or 0.  A sender that got 1 goes on to consume the window with
\* the same stream and size; the locals end with the call
can_send_check(t) ==
    /\ cpc[t] = "cs_read"
    /\ LET sw == stream_remote_window_size[snd_stream[t]]
           r == CanSendResult(conn_window[t], sw, data_len[t])
       IN /\ can_send_view' = [n |-> data_len[t], conn |-> conn_window[t],
                                stream |-> sw, ret |-> r]
          /\ cpc' = [cpc EXCEPT ![t] = IF r = 1 THEN "cs_ok" ELSE "idle"]
          /\ snd_stream' = IF r = 1 THEN snd_stream
                           ELSE [snd_stream EXCEPT ![t] = NULL]
          /\ data_len' = IF r = 1 THEN data_len
                         ELSE [data_len EXCEPT ![t] = Size(0, 0)]
    /\ conn_window' = [conn_window EXCEPT ![t] = 0]
    /\ UNCHANGED <<next_stream_id, chan_mutex, streams_mutex, conn_streams,
                   stream_id, assigned, cqvars, lifevars, batchvars, othervars, rcvvars,
                   write_mutex, conn_remote_window_size,
                   stream_remote_window_size, stream_window, rxvars,
                   flow_hist>>

\* lines 129-134: consume_send_window takes conn->write_mutex
consume_send_lock(t) ==
    /\ cpc[t] = "cs_ok"
    /\ MutexFree(write_mutex)
    /\ write_mutex' = t
    /\ cpc' = [cpc EXCEPT ![t] = "cw_locked"]
    /\ UNCHANGED <<next_stream_id, chan_mutex, streams_mutex, conn_streams,
                   stream_id, assigned, cqvars, lifevars, batchvars, othervars, rcvvars,
                   conn_remote_window_size, stream_remote_window_size,
                   sndvars, rxvars, fcghosts>>

\* the totals after n bytes were consumed on the connection / on stream s
ConsumedOnConn(h, n) ==
    [h EXCEPT !.consumed_conn = @ + n.lo, !.big = @ \/ n.hi # 0]
ConsumedOnStream(h, s, n) ==
    [h EXCEPT !.consumed_stream[s] = @ + n.lo, !.big = @ \/ n.hi # 0]

\* lines 135-136: conn->remote_window_size -= data_len; unlock
consume_send_conn(t) ==
    /\ cpc[t] = "cw_locked"
    /\ conn_remote_window_size' = SubSize(conn_remote_window_size, data_len[t])
    /\ write_mutex' = NoThread
    /\ flow_hist' = ConsumedOnConn(flow_hist, data_len[t])
    /\ cpc' = [cpc EXCEPT ![t] = "cw_conn"]
    /\ UNCHANGED <<next_stream_id, chan_mutex, streams_mutex, conn_streams,
                   stream_id, assigned, cqvars, lifevars, batchvars, othervars, rcvvars,
                   stream_remote_window_size, sndvars, rxvars, can_send_view>>

\* line 138, the load of stream->remote_window_size -= data_len (no lock)
consume_send_stream_load(t) ==
    /\ cpc[t] = "cw_conn"
    /\ stream_window' =
          [stream_window EXCEPT ![t] = stream_remote_window_size[snd_stream[t]]]
    /\ cpc' = [cpc EXCEPT ![t] = "cw_loaded"]
    /\ UNCHANGED <<next_stream_id, chan_mutex, streams_mutex, conn_streams,
                   stream_id, assigned, cqvars, lifevars, batchvars, othervars, rcvvars,
                   write_mutex, conn_remote_window_size,
                   stream_remote_window_size, snd_stream, data_len,
                   conn_window, rxvars, fcghosts>>

\* line 138, the store, and line 140: return 0
consume_send_stream_store(t) ==
    /\ cpc[t] = "cw_loaded"
    /\ stream_remote_window_size' =
          [stream_remote_window_size EXCEPT
              ![snd_stream[t]] = SubSize(stream_window[t], data_len[t])]
    /\ flow_hist' = ConsumedOnStream(flow_hist, snd_stream[t], data_len[t])
    /\ snd_stream' = [snd_stream EXCEPT ![t] = NULL]
    /\ data_len' = [data_len EXCEPT ![t] = Size(0, 0)]
    /\ stream_window' = [stream_window EXCEPT ![t] = 0]
    /\ cpc' = [cpc EXCEPT ![t] = "idle"]
    /\ UNCHANGED <<next_stream_id, chan_mutex, streams_mutex, conn_streams,
                   stream_id, assigned, cqvars, lifevars, batchvars, othervars, rcvvars,
                   write_mutex, conn_remote_window_size, conn_window, rxvars,
                   can_send_view>>

\* the total of the increments received, kept within the int32_t range
IncrementTotal(total, inc) ==
    IF total > INT32_MAX - inc THEN INT32_MAX ELSE total + inc

\* lines 52-55: a WINDOW_UPDATE frame whose increment is 0 or more than
\* 0x7FFFFFFF is rejected
window_update_reject ==
    /\ rx_pc = "idle"
    /\ flow_hist.updates < MaxUpdates
    /\ \E sid \in UpdateTargets, inc \in Increments :
          /\ IncrementRejected(inc)
    /\ rx_ret' = -1
    /\ flow_hist' = [flow_hist EXCEPT !.updates = @ + 1]
    /\ UNCHANGED <<connvars, cqvars, lifevars, batchvars, othervars, rcvvars, write_mutex,
                   conn_remote_window_size, stream_remote_window_size,
                   sndvars, rx_pc, rx_stream_id, rx_increment, rx_window,
                   can_send_view>>

\* lines 57-59: stream_id == 0, take conn->write_mutex
window_update_conn_lock ==
    /\ rx_pc = "idle"
    /\ flow_hist.updates < MaxUpdates
    /\ MutexFree(write_mutex)
    /\ \E inc \in Increments :
          /\ ~IncrementRejected(inc)
          /\ rx_increment' = inc
    /\ rx_stream_id' = 0
    /\ write_mutex' = "rx"
    /\ flow_hist' = [flow_hist EXCEPT !.updates = @ + 1]
    /\ rx_pc' = "wu_conn"
    /\ UNCHANGED <<connvars, cqvars, lifevars, batchvars, othervars, rcvvars,
                   conn_remote_window_size, stream_remote_window_size,
                   sndvars, rx_window, rx_ret, can_send_view>>

\* whether an update of window w by inc exceeded 0x7FFFFFFF, and whether the
\* call then returned -1
OverflowSeen(seen, w, inc, ret) ==
    IF w <= INT32_MAX - inc THEN seen
    ELSE IF ret = -1 THEN "reported" ELSE "missed"

\* lines 60-67: conn->remote_window_size += increment; the overflow test;
\* unlock; return
window_update_conn_add ==
    /\ rx_pc = "wu_conn"
    /\ LET w == AddIncrement(conn_remote_window_size, rx_increment.lo)
       IN /\ conn_remote_window_size' = w
          /\ rx_ret' = UpdateResult(w)
          /\ flow_hist' =
                [flow_hist EXCEPT
                    !.inc_conn = IncrementTotal(@, rx_increment.lo),
                    !.overflow = OverflowSeen(@, conn_remote_window_size,
                                              rx_increment.lo,
                                              UpdateResult(w))]
    /\ write_mutex' = NoThread
    /\ rx_increment' = Size(0, 0)
    /\ rx_pc' = "idle"
    /\ UNCHANGED <<connvars, cqvars, lifevars, batchvars, othervars, rcvvars,
                   stream_remote_window_size, sndvars, rx_stream_id,
                   rx_window, can_send_view>>

\* lines 68-70: stream_id != 0, take conn->streams_mutex
window_update_stream_lock ==
    /\ rx_pc = "idle"
    /\ flow_hist.updates < MaxUpdates
    /\ MutexFree(streams_mutex)
    /\ \E sid \in UpdateTargets \ {0}, inc \in Increments :
          /\ ~IncrementRejected(inc)
          /\ rx_stream_id' = sid
          /\ rx_increment' = inc
    /\ streams_mutex' = "rx"
    /\ flow_hist' = [flow_hist EXCEPT !.updates = @ + 1]
    /\ rx_pc' = "wu_stream"
    /\ UNCHANGED <<next_stream_id, chan_mutex, conn_streams, cpc, stream_id,
                   assigned, cqvars, lifevars, batchvars, othervars, rcvvars, write_mutex,
                   conn_remote_window_size, stream_remote_window_size,
                   sndvars, rx_window, rx_ret, can_send_view>>

\* lines 72-78 and 90-93: no stream of conn->streams has the id; unlock and
\* return 0
window_update_stream_missing ==
    /\ rx_pc = "wu_stream"
    /\ rx_stream_id \notin RegisteredStreams
    /\ streams_mutex' = NoThread
    /\ rx_ret' = 0
    /\ rx_stream_id' = 0
    /\ rx_increment' = Size(0, 0)
    /\ rx_pc' = "idle"
    /\ UNCHANGED <<next_stream_id, chan_mutex, conn_streams, cpc, stream_id,
                   assigned, cqvars, lifevars, batchvars, othervars, rcvvars, write_mutex,
                   conn_remote_window_size, stream_remote_window_size,
                   sndvars, rx_window, fcghosts>>

\* lines 72-81: the stream is found; the load of
\* stream->remote_window_size += increment
window_update_stream_load ==
    /\ rx_pc = "wu_stream"
    /\ rx_stream_id \in RegisteredStreams
    /\ rx_window' = stream_remote_window_size[rx_stream_id]
    /\ rx_pc' = "wu_loaded"
    /\ UNCHANGED <<connvars, cqvars, lifevars, batchvars, othervars, rcvvars, write_mutex,
                   conn_remote_window_size, stream_remote_window_size,
                   sndvars, rx_stream_id, rx_increment, rx_ret, fcghosts>>

\* line 81, the store; lines 83-93: the overflow test, unlock, return
window_update_stream_store ==
    /\ rx_pc = "wu_loaded"
    /\ LET w == AddIncrement(rx_window, rx_increment.lo)
       IN /\ stream_remote_window_size' =
                [stream_remote_window_size EXCEPT ![rx_stream_id] = w]
          /\ rx_ret' = UpdateResult(w)
          /\ flow_hist' =
                [flow_hist EXCEPT
                    !.inc_stream[rx_stream_id] =
                        IncrementTotal(@, rx_increment.lo),
                    !.overflow = OverflowSeen(@, rx_window, rx_increment.lo,
                                              UpdateResult(w))]
    /\ streams_mutex' = NoThread
    /\ rx_stream_id' = 0
    /\ rx_increment' = Size(0, 0)
    /\ rx_window' = 0
    /\ rx_pc' = "idle"
    /\ UNCHANGED <<next_stream_id, chan_mutex, conn_streams, cpc, stream_id,
                   assigned, cqvars, lifevars, batchvars, othervars, rcvvars, write_mutex,
                   conn_remote_window_size, sndvars, can_send_view>>

\* streams are created while senders send on them and WINDOW_UPDATE frames
\* arrive
FlowNext ==
    \/ create_call_begin(Creator)
    \/ create_call_lock(Creator)
    \/ create_call_read_id(Creator)
    \/ create_call_advance(Creator)
    \/ http2_stream_create_lock(Creator)
    \/ http2_stream_create_add(Creator)
    \/ create_call_unlock(Creator)
    \/ \E t \in Workers : can_send_lock(t)
    \/ \E t \in Workers : can_send_read_conn(t)
    \/ \E t \in Workers : can_send_check(t)
    \/ \E t \in Workers : consume_send_lock(t)
    \/ \E t \in Workers : consume_send_conn(t)
    \/ \E t \in Workers : consume_send_stream_load(t)
    \/ \E t \in Workers : consume_send_stream_store(t)
    \/ window_update_reject
    \/ window_update_conn_lock
    \/ window_update_conn_add
    \/ window_update_stream_lock
    \/ window_update_stream_missing
    \/ window_update_stream_load
    \/ window_update_stream_store

FlowSpec == Init /\ [][FlowNext]_vars

(***************************************************************************)
(* Receive-side flow control: http2_flow_control_consume_recv_window       *)
(* (flow_control.c lines 150-197), called by the thread that reads the     *)
(* connection's frames, and the WINDOW_UPDATE frames it writes through     *)
(* http2_flow_control_send_window_update and http2_connection_send_frame.  *)
(***************************************************************************)
\* the data_len values of the DATA frames received; 32768 leaves a full
\* window at 32767, 2^31 and 2^32 + 5 are the sizes of C20
RecvLens ==
    {Size(0, 20000), Size(0, 32768), Size(0, 50000), Size(1, 0), Size(2, 5)}

\* line 156: (int32_t)data_len < 0 || (int32_t)data_len > 65535
RecvRejected(n) == ToInt32(n) < 0 \/ ToInt32(n) > HTTP2_DEFAULT_WINDOW_SIZE

\* lines 163 and 180: window < (int32_t)data_len
Underflow(w, n) == w < ToInt32(n)

\* lines 171 and 188: window < HTTP2_DEFAULT_WINDOW_SIZE / 2
WindowLow(w) == w < HTTP2_DEFAULT_WINDOW_SIZE \div 2

\* the WINDOW_UPDATE frame send_window_update builds (lines 27-39) for
\* increment = HTTP2_DEFAULT_WINDOW_SIZE - window (lines 172 and 189)
WindowUpdateFrame(sid, w) ==
    [stream_id |-> sid, increment |-> HTTP2_DEFAULT_WINDOW_SIZE - w]

\* send() writes the whole frame or fails
SendOutcomes == {TRUE, FALSE}

\* pthread_mutex_lock on a default mutex the caller already holds is
\* undefined: the thread blocks for ever or the call returns
RelockOutcomes == {"cr_deadlock", "cr_conn_send"}

\* lines 150-158: the size is refused
consume_recv_reject ==
    /\ rx_pc = "idle"
    /\ flow_hist.recvs < MaxRecvs
    /\ \E s \in LiveCalls, n \in RecvLens :
          /\ RecvRejected(n)
          /\ recv_view' =
                RecvReturned(RecvView(s, n, conn_local_window_size,
                                  stream_local_window_size[s],
                                  Len(frames_sent)), -1)
    /\ rx_ret' = -1
    /\ flow_hist' = [flow_hist EXCEPT !.recvs = @ + 1]
    /\ UNCHANGED <<connvars, cqvars, lifevars, batchvars, othervars, write_mutex,
                   conn_remote_window_size, stream_remote_window_size,
                   sndvars, rx_pc, rx_stream_id, rx_increment, rx_window,
                   can_send_view, conn_local_window_size,
                   stream_local_window_size, rcv_stream, rcv_len,
                   frames_sent>>

\* lines 150-160: the size is accepted, take conn->write_mutex
consume_recv_lock ==
    /\ rx_pc = "idle"
    /\ flow_hist.recvs < MaxRecvs
    /\ MutexFree(write_mutex)
    /\ \E s \in LiveCalls, n \in RecvLens :
          /\ ~RecvRejected(n)
          /\ rcv_stream' = s
          /\ rcv_len' = n
          /\ recv_view' = RecvView(s, n, conn_local_window_size,
                                   stream_local_window_size[s],
                                   Len(frames_sent))
    /\ write_mutex' = "rx"
    /\ flow_hist' = [flow_hist EXCEPT !.recvs = @ + 1]
    /\ rx_pc' = "cr_locked"
    /\ UNCHANGED <<connvars, cqvars, lifevars, batchvars, othervars,
                   conn_remote_window_size, stream_remote_window_size,
                   sndvars, rx_stream_id, rx_increment, rx_window, rx_ret,
                   can_send_view, conn_local_window_size,
                   stream_local_window_size, frames_sent>>

\* lines 163-166: the connection's window is too small; unlock, return -1
consume_recv_conn_underflow ==
    /\ rx_pc = "cr_locked"
    /\ Underflow(conn_local_window_size, rcv_len)
    /\ write_mutex' = NoThread
    /\ rx_ret' = -1
    /\ recv_view' = RecvReturned(recv_view, -1)
    /\ rcv_stream' = NULL
    /\ rcv_len' = Size(0, 0)
    /\ rx_pc' = "idle"
    /\ UNCHANGED <<connvars, cqvars, lifevars, batchvars, othervars,
                   conn_remote_window_size, stream_remote_window_size,
                   sndvars, rx_stream_id, rx_increment, rx_window, fcghosts,
                   conn_local_window_size, stream_local_window_size,
                   frames_sent>>

\* lines 168-171 and 177: conn->local_window_size -= data_len; unlock unless
\* the window is low
consume_recv_conn_sub ==
    /\ rx_pc = "cr_locked"
    /\ ~Underflow(conn_local_window_size, rcv_len)
    /\ LET w == SubSize(conn_local_window_size, rcv_len)
       IN /\ conn_local_window_size' = w
          /\ write_mutex' = IF WindowLow(w) THEN write_mutex ELSE NoThread
          /\ rx_pc' = IF WindowLow(w) THEN "cr_conn_update" ELSE "cr_stream"
    /\ UNCHANGED <<connvars, cqvars, lifevars, batchvars, othervars,
                   conn_remote_window_size, stream_remote_window_size,
                   sndvars, rx_stream_id, rx_increment, rx_window, rx_ret,
                   fcghosts, stream_local_window_size, rcv_stream, rcv_len,
                   frames_sent, recv_view>>

\* lines 172-174 and http2_transport.c line 98: send_frame locks
\* conn->write_mutex, which this thread holds since line 160
consume_recv_conn_relock ==
    /\ rx_pc = "cr_conn_update"
    /\ rx_pc' \in RelockOutcomes
    /\ UNCHANGED <<connvars, cqvars, lifevars, batchvars, othervars, write_mutex,
                   conn_remote_window_size, stream_remote_window_size,
                   sndvars, rx_stream_id, rx_increment, rx_window, rx_ret,
                   fcghosts, rcvvars>>

\* http2_transport.c lines 100-116: send the frame, unlock, return
consume_recv_conn_send ==
    /\ rx_pc = "cr_conn_send"
    /\ \E sent \in SendOutcomes :
          frames_sent' =
              IF sent
              THEN Append(frames_sent,
                          WindowUpdateFrame(0, conn_local_window_size))
              ELSE frames_sent
    /\ write_mutex' = NoThread
    /\ rx_pc' = "cr_conn_restore"
    /\ UNCHANGED <<connvars, cqvars, lifevars, batchvars, othervars,
                   conn_remote_window_size, stream_remote_window_size,
                   sndvars, rx_stream_id, rx_increment, rx_window, rx_ret,
                   fcghosts, conn_local_window_size,
                   stream_local_window_size, rcv_stream, rcv_len, recv_view>>

\* lines 175-177: conn->local_window_size = HTTP2_DEFAULT_WINDOW_SIZE, whatever
\* send_window_update returned; unlock
consume_recv_conn_restore ==
    /\ rx_pc = "cr_conn_restore"
    /\ conn_local_window_size' = HTTP2_DEFAULT_WINDOW_SIZE
    /\ write_mutex' = NoThread
    /\ rx_pc' = "cr_stream"
    /\ UNCHANGED <<connvars, cqvars, lifevars, batchvars, othervars,
                   conn_remote_window_size, stream_remote_window_size,
                   sndvars, rx_stream_id, rx_increment, rx_window, rx_ret,
                   fcghosts, stream_local_window_size, rcv_stream, rcv_len,
                   frames_sent, recv_view>>

\* lines 180-182: the stream's window is too small; return -1
consume_recv_stream_underflow ==
    /\ rx_pc = "cr_stream"
    /\ Underflow(stream_local_window_size[rcv_stream], rcv_len)
    /\ rx_ret' = -1
    /\ recv_view' = RecvReturned(recv_view, -1)
    /\ rcv_stream' = NULL
    /\ rcv_len' = Size(0, 0)
    /\ rx_pc' = "idle"
    /\ UNCHANGED <<connvars, cqvars, lifevars, batchvars, othervars, write_mutex,
                   conn_remote_window_size, stream_remote_window_size,
                   sndvars, rx_stream_id, rx_increment, rx_window, fcghosts,
                   conn_local_window_size, stream_local_window_size,
                   frames_sent>>

\* lines 184-188 and 196: stream->local_window_size -= data_len; return 0
\* unless the window is low
consume_recv_stream_sub ==
    /\ rx_pc = "cr_stream"
    /\ ~Underflow(stream_local_window_size[rcv_stream], rcv_len)
    /\ LET w == SubSize(stream_local_window_size[rcv_stream], rcv_len)
       IN /\ stream_local_window_size' =
                [stream_local_window_size EXCEPT ![rcv_stream] = w]
          /\ rx_pc' = IF WindowLow(w) THEN "cr_stream_update" ELSE "idle"
          /\ rx_ret' = IF WindowLow(w) THEN rx_ret ELSE 0
          /\ recv_view' = IF WindowLow(w) THEN recv_view
                          ELSE RecvReturned(recv_view, 0)
          /\ rcv_stream' = IF WindowLow(w) THEN rcv_stream ELSE NULL
          /\ rcv_len' = IF WindowLow(w) THEN rcv_len ELSE Size(0, 0)
    /\ UNCHANGED <<connvars, cqvars, lifevars, batchvars, othervars, write_mutex,
                   conn_remote_window_size, stream_remote_window_size,
                   sndvars, rx_stream_id, rx_increment, rx_window, fcghosts,
                   conn_local_window_size, frames_sent>>

\* lines 189-190 and http2_transport.c line 98: send_frame takes
\* conn->write_mutex
consume_recv_stream_send_lock ==
    /\ rx_pc = "cr_stream_update"
    /\ MutexFree(write_mutex)
    /\ write_mutex' = "rx"
    /\ rx_pc' = "cr_stream_send"
    /\ UNCHANGED <<connvars, cqvars, lifevars, batchvars, othervars,
                   conn_remote_window_size, stream_remote_window_size,
                   sndvars, rx_stream_id, rx_increment, rx_window, rx_ret,
                   fcghosts, rcvvars>>

\* http2_transport.c lines 100-116: send the frame, unlock, return
consume_recv_stream_send ==
    /\ rx_pc = "cr_stream_send"
    /\ \E sent \in SendOutcomes :
          frames_sent' =
              IF sent
              THEN Append(frames_sent,
                          WindowUpdateFrame(rcv_stream,
                              stream_local_window_size[rcv_stream]))
              ELSE frames_sent
    /\ write_mutex' = NoThread
    /\ rx_pc' = "cr_stream_restore"
    /\ UNCHANGED <<connvars, cqvars, lifevars, batchvars, othervars,
                   conn_remote_window_size, stream_remote_window_size,
                   sndvars, rx_stream_id, rx_increment, rx_window, rx_ret,
                   fcghosts, conn_local_window_size,
                   stream_local_window_size, rcv_stream, rcv_len, recv_view>>

\* lines 191-196: stream->local_window_size = HTTP2_DEFAULT_WINDOW_SIZE,
\* whatever send_window_update returned; return 0
consume_recv_stream_restore ==
    /\ rx_pc = "cr_stream_restore"
    /\ stream_local_window_size' =
          [stream_local_window_size EXCEPT
              ![rcv_stream] = HTTP2_DEFAULT_WINDOW_SIZE]
    /\ rx_ret' = 0
    /\ recv_view' = RecvReturned(recv_view, 0)
    /\ rcv_stream' = NULL
    /\ rcv_len' = Size(0, 0)
    /\ rx_pc' = "idle"
    /\ UNCHANGED <<connvars, cqvars, lifevars, batchvars, othervars, write_mutex,
                   conn_remote_window_size, stream_remote_window_size,
                   sndvars, rx_stream_id, rx_increment, rx_window, fcghosts,
                   conn_local_window_size, frames_sent>>

\* DATA frames arrive on the streams of the calls being created
RecvNext ==
    \/ create_call_begin(Creator)
    \/ create_call_lock(Creator)
    \/ create_call_read_id(Creator)
    \/ create_call_advance(Creator)
    \/ http2_stream_create_lock(Creator)
    \/ http2_stream_create_add(Creator)
    \/ create_call_unlock(Creator)
    \/ consume_recv_reject
    \/ consume_recv_lock
    \/ consume_recv_conn_underflow
    \/ consume_recv_conn_sub
    \/ consume_recv_conn_relock
    \/ consume_recv_conn_send
    \/ consume_recv_conn_restore
    \/ consume_recv_stream_underflow
    \/ consume_recv_stream_sub
    \/ consume_recv_stream_send_lock
    \/ consume_recv_stream_send
    \/ consume_recv_stream_restore

RecvSpec == Init /\ [][RecvNext]_vars

(***************************************************************************)
(* The HPACK integer codec applied to its inputs                           *)
(***************************************************************************)
\* hpack_encode_integer(value, prefix_bits, output, output_len)
hpack_encode ==
    /\ hp_pc = "start"
    /\ hp_outlen > 0 \/ hp_in = <<>>
    /\ hp_enc' = hpack_encode_integer(hp_value, hp_prefix, hp_outlen)
    /\ hp_pc' = "encoded"
    /\ UNCHANGED <<cqvars, connvars, lifevars, batchvars, fcvars, mdvars,
                   framevars, srvvars, reqvars, latevars, hp_value,
                   hp_prefix, hp_outlen, hp_in, hp_dec>>

\* hpack_decode_integer on the bytes the encoder wrote
hpack_decode_encoded ==
    /\ hp_pc = "encoded"
    /\ hp_enc.ret > 0
    /\ hp_in' = hp_enc.bytes
    /\ hp_dec' = hpack_decode_integer(hp_enc.bytes, hp_prefix)
    /\ hp_pc' = "decoded"
    /\ UNCHANGED <<cqvars, connvars, lifevars, batchvars, fcvars, mdvars,
                   framevars, srvvars, reqvars, latevars, hp_value,
                   hp_prefix, hp_outlen, hp_enc>>

\* hpack_decode_integer on a byte string received from the peer
hpack_decode_raw ==
    /\ hp_pc = "start"
    /\ hp_outlen = 0
    /\ hp_dec' = hpack_decode_integer(hp_in, hp_prefix)
    /\ hp_pc' = "decoded"
    /\ UNCHANGED <<cqvars, connvars, lifevars, batchvars, fcvars, mdvars,
                   framevars, srvvars, reqvars, latevars, hp_value,
                   hp_prefix, hp_outlen, hp_in, hp_enc>>

HpackNext ==
    \/ hpack_encode
    \/ hpack_decode_encoded
    \/ hpack_decode_raw

HpackSpec == HpackInit /\ [][HpackNext]_vars

(***************************************************************************)
(* The HPACK metadata codec applied to a metadata array                    *)
(***************************************************************************)
\* a metadata array built with grpc_metadata_array_add and an output buffer
MdInit ==
    /\ CQInit /\ ChanInit /\ CallInit /\ FlowInit /\ CodecIdle /\ FrameIdle
    /\ ServerInit /\ LateIdle
    /\ md_pc = "start"
    /\ md_in \in MetadataArrays(MaxEntries)
    /\ md_outlen \in MdOutputLens
    /\ md_enc = NoBlock
    /\ md_dec = NoMetadata

\* hpack_encode_metadata(metadata, output, output_len)
md_encode ==
    /\ md_pc = "start"
    /\ md_enc' = hpack_encode_metadata(md_in, md_outlen)
    /\ md_pc' = "encoded"
    /\ UNCHANGED <<cqvars, connvars, lifevars, batchvars, fcvars, codecvars,
                   framevars, srvvars, reqvars, latevars, md_in, md_outlen, md_dec>>

\* hpack_decode_metadata on the block the encoder wrote
md_decode ==
    /\ md_pc = "encoded"
    /\ md_enc.ret >= 0
    /\ md_dec' = hpack_decode_metadata(md_enc.bytes)
    /\ md_pc' = "decoded"
    /\ UNCHANGED <<cqvars, connvars, lifevars, batchvars, fcvars, codecvars,
                   framevars, srvvars, reqvars, latevars, md_in, md_outlen, md_enc>>

MdNext ==
    \/ md_encode
    \/ md_decode

MdSpec == MdInit /\ [][MdNext]_vars

(***************************************************************************)
(* http2_connection_send_frame (http2_transport.c 80-117)                  *)
(***************************************************************************)
\* what the frame actions leave alone
frame_rest == <<cqvars, connvars, lifevars, batchvars, codecvars, mdvars,
                srvvars, reqvars, latevars,
                conn_remote_window_size, stream_remote_window_size, sndvars,
                rxvars, fcghosts, rcvvars>>

\* lines 80-98: encode the header into frame_header, take conn->write_mutex
send_frame_lock(w, h) ==
    /\ fr_pc[w] = "idle"
    /\ frames_started < MaxFrames
    /\ WriteLockFree(write_mutex)
    /\ write_mutex' = w
    /\ fr_hdr' = [fr_hdr EXCEPT ![w] = h]
    /\ frames_started' = frames_started + 1
    /\ fr_pc' = [fr_pc EXCEPT ![w] = "header"]
    /\ UNCHANGED <<frame_rest, fr_ret, wire, wire_closed, rcv_pc, rcv_hdr,
                   recv_log>>

\* lines 100-104: send the nine header bytes; on failure unlock and return
\* -1.  Lines 107, 115-116: with no payload, unlock and return 0
send_frame_header(w) ==
    /\ fr_pc[w] = "header"
    /\ \E sent \in SendOutcomes :
          IF sent /\ ~wire_closed
          THEN /\ wire' = Append(wire,
                                 HeaderChunk(w, EncodeFrameHeader(fr_hdr[w]),
                                             TRUE, fr_hdr[w]))
               /\ wire_closed' = wire_closed
               /\ IF fr_hdr[w].length > 0
                  THEN /\ fr_pc' = [fr_pc EXCEPT ![w] = "payload"]
                       /\ UNCHANGED <<write_mutex, fr_ret>>
                  ELSE /\ fr_pc' = [fr_pc EXCEPT ![w] = "idle"]
                       /\ write_mutex' = NoThread
                       /\ fr_ret' = [fr_ret EXCEPT ![w] = 0]
          ELSE /\ wire_closed' = TRUE
               /\ write_mutex' = NoThread
               /\ fr_ret' = [fr_ret EXCEPT ![w] = -1]
               /\ fr_pc' = [fr_pc EXCEPT ![w] = "idle"]
               /\ wire' = wire
    /\ UNCHANGED <<frame_rest, fr_hdr, frames_started, rcv_pc, rcv_hdr,
                   recv_log>>

\* lines 107-116: send the payload, unlock, return 0, or -1 when the send
\* failed
send_frame_payload(w) ==
    /\ fr_pc[w] = "payload"
    /\ \E sent \in SendOutcomes :
          IF sent /\ ~wire_closed
          THEN /\ wire' = Append(wire, PayloadChunk(w, fr_hdr[w].length))
               /\ wire_closed' = wire_closed
               /\ fr_ret' = [fr_ret EXCEPT ![w] = 0]
          ELSE /\ wire_closed' = TRUE
               /\ fr_ret' = [fr_ret EXCEPT ![w] = -1]
               /\ wire' = wire
    /\ write_mutex' = NoThread
    /\ fr_pc' = [fr_pc EXCEPT ![w] = "idle"]
    /\ UNCHANGED <<frame_rest, fr_hdr, frames_started, rcv_pc, rcv_hdr,
                   recv_log>>

\* another HTTP/2 implementation at the sending end writes a whole frame
peer_send_frame(b) ==
    /\ frames_started < MaxFrames
    /\ write_mutex = NoThread
    /\ ~wire_closed
    /\ frames_started' = frames_started + 1
    /\ wire' = wire \o <<HeaderChunk("peer", b, FALSE, ZeroHeader)>>
                    \o (IF DecodeLength(b) > 0
                        THEN <<PayloadChunk("peer", DecodeLength(b))>>
                        ELSE <<>>)
    /\ UNCHANGED <<frame_rest, write_mutex, fr_pc, fr_hdr, fr_ret, wire_closed,
                   rcv_pc, rcv_hdr, recv_log>>

(***************************************************************************)
(* http2_connection_recv_frame (http2_transport.c 119-156)                 *)
(***************************************************************************)
\* what a recv_frame call read and returned
Received(ret, decoded, h, chunk) ==
    [ret |-> ret, decoded |-> decoded, header |-> h, bytes |-> chunk.bytes,
     by |-> chunk.by, from_send |-> chunk.from_send, sent |-> chunk.sent]

\* lines 119-136, 149-153: read nine bytes and decode them; -1 when the
\* socket gave fewer; 0 when the frame has no payload
recv_frame_header ==
    /\ rcv_pc = "idle"
    /\ Len(recv_log) < MaxFrames
    /\ IF wire # <<>>
       THEN LET c == Head(wire)
                h == DecodeFrameHeader(c.bytes)
            IN  /\ wire' = Tail(wire)
                /\ IF h.length > 0
                   THEN /\ rcv_pc' = "payload"
                        /\ rcv_hdr' = h
                        /\ recv_log' = Append(recv_log,
                                              Received(0, FALSE, h, c))
                   ELSE /\ rcv_pc' = "idle"
                        /\ rcv_hdr' = ZeroHeader
                        /\ recv_log' = Append(recv_log,
                                              Received(0, TRUE, h, c))
       ELSE /\ wire_closed
            /\ recv_log' = Append(recv_log,
                                  Received(-1, FALSE, ZeroHeader,
                                           HeaderChunk("peer", <<>>, FALSE,
                                                       ZeroHeader)))
            /\ UNCHANGED <<wire, rcv_pc, rcv_hdr>>
    /\ UNCHANGED <<frame_rest, write_mutex, fr_pc, fr_hdr, fr_ret, wire_closed,
                   frames_started>>

\* lines 138-148, 155: allocate header->length bytes and read the payload;
\* -1 when the socket gave fewer, 0 otherwise
recv_frame_payload ==
    /\ rcv_pc = "payload"
    /\ LET n == Len(recv_log)
           done(r) == [recv_log EXCEPT ![n].ret = r, ![n].decoded = TRUE]
       IN  IF wire # <<>>
           THEN /\ wire' = Tail(wire)
                /\ recv_log' = done(0)
           ELSE /\ wire_closed
                /\ recv_log' = done(-1)
                /\ wire' = wire
    /\ rcv_pc' = "idle"
    /\ rcv_hdr' = ZeroHeader
    /\ UNCHANGED <<frame_rest, write_mutex, fr_pc, fr_hdr, fr_ret, wire_closed,
                   frames_started>>

FrameNext ==
    \/ \E w \in Writers, h \in FrameHeaders : send_frame_lock(w, h)
    \/ \E w \in Writers : send_frame_header(w)
    \/ \E w \in Writers : send_frame_payload(w)
    \/ \E b \in PeerHeaders : peer_send_frame(b)
    \/ recv_frame_header
    \/ recv_frame_payload

FrameSpec == Init /\ [][FrameNext]_vars

(***************************************************************************)
(* grpc_server.c: configuration, start, worker threads, shutdown           *)
(***************************************************************************)
\* what the server actions leave alone
config_rest == <<connvars, lifevars, batchvars, codecvars, mdvars, framevars,
                 fcvars, latevars>>
server_rest == <<config_rest, reqvars>>

\* line 99, bind: sin_port = htons(port) keeps the low 16 bits of the
\* number, and the kernel picks the port when they are 0
BoundPorts(port) ==
    IF port % 65536 = 0 THEN EphemeralPorts ELSE {port % 65536}

ConfigCall(op, ret, bound, ports, cqs) ==
    [op |-> op, started |-> srv_started, ret |-> ret, bound |-> bound,
     ports_before |-> srv_ports, ports_after |-> ports,
     cqs_before |-> srv_cqs, cqs_after |-> cqs]

\* grpc_server_add_insecure_http2_port (lines 55-140), the whole call under
\* server->mutex: 0 once the server has started or when socket, bind or
\* listen fails; otherwise the port is appended and the number read from
\* the address is returned
add_port(port) ==
    /\ srv_pc = "idle"
    /\ srv_calls < MaxServerCalls
    /\ srv_calls' = srv_calls + 1
    /\ \E bound \in BindOutcomes :
          IF srv_started \/ ~bound
          THEN /\ srv_last' = ConfigCall("add_port", 0, 0, srv_ports, srv_cqs)
               /\ UNCHANGED srv_ports
          ELSE /\ srv_ports' = Append(srv_ports, port)
               /\ \E b \in BoundPorts(port) :
                     srv_last' = ConfigCall("add_port", port, b,
                                           Append(srv_ports, port), srv_cqs)
    /\ UNCHANGED <<cqvars, server_rest, srv_started, srv_shutdown_called,
                   srv_cqs, worker_threads, worker_pc, srv_pc, srv_i, srv_cq,
                   srv_tag, srv_log>>

\* grpc_server_register_completion_queue (lines 153-176), the whole call
\* under server->mutex
register_completion_queue(cq) ==
    /\ srv_pc = "idle"
    /\ srv_calls < MaxServerCalls
    /\ srv_calls' = srv_calls + 1
    /\ srv_cqs' = Append(srv_cqs, cq)
    /\ srv_last' = ConfigCall("register", 0, 0, srv_ports,
                              Append(srv_cqs, cq))
    /\ UNCHANGED <<cqvars, server_rest, srv_started, srv_shutdown_called,
                   srv_ports, worker_threads, worker_pc, srv_pc, srv_i, srv_cq,
                   srv_tag, srv_log>>

\* grpc_server_start (lines 214-237), the whole call under server->mutex:
\* nothing when already started, otherwise the worker threads are created
server_start ==
    /\ srv_pc = "idle"
    /\ srv_calls < MaxServerCalls
    /\ srv_calls' = srv_calls + 1
    /\ IF srv_started
       THEN UNCHANGED <<srv_started, worker_threads, worker_pc>>
       ELSE /\ srv_started' = TRUE
            /\ worker_threads' = TRUE
            /\ worker_pc' = [w \in ServerWorkers |-> "check"]
    /\ UNCHANGED <<cqvars, server_rest, srv_shutdown_called, srv_ports,
                   srv_cqs, srv_pc, srv_i, srv_cq, srv_tag, srv_last, srv_log>>

\* server_worker_thread, line 184: while (!server->shutdown_called); the
\* flag is read without server->mutex, and the read sees the flag's value
worker_check(w) ==
    /\ worker_pc[w] = "check"
    /\ worker_pc' = [worker_pc EXCEPT ![w] =
                         IF srv_shutdown_called THEN "exited" ELSE "poll"]
    /\ UNCHANGED <<cqvars, server_rest, srv_started, srv_shutdown_called,
                   srv_ports, srv_cqs, worker_threads, srv_pc, srv_i, srv_cq,
                   srv_tag, srv_calls, srv_last, srv_log>>

\* lines 186-208: select, with a timeout, on every port; a connection that
\* waits is accepted and closed at once
worker_poll(w) ==
    /\ worker_pc[w] = "poll"
    /\ worker_pc' = [worker_pc EXCEPT ![w] = "check"]
    /\ IF srv_ports # <<>> /\ srv_backlog > 0
       THEN /\ srv_backlog' = srv_backlog - 1
            /\ srv_closed' = srv_closed + 1
       ELSE UNCHANGED <<srv_backlog, srv_closed>>
    /\ UNCHANGED <<cqvars, config_rest, srv_requested, srv_started,
                   srv_shutdown_called,
                   srv_ports, srv_cqs, worker_threads, srv_pc, srv_i, srv_cq,
                   srv_tag, srv_calls, srv_last, srv_log>>

\* what a shutdown_and_notify call found and did
AllExited == \A w \in ServerWorkers : worker_pc[w] \in {"none", "exited"}
NotifyCall(cq, tag) ==
    [cq |-> cq, tag |-> tag, started |-> srv_started, events |-> <<>>,
     exited_at_push |-> TRUE, returned |-> FALSE]

\* lines 273-274, 285: nothing is enqueued unless cq and tag are both set
NotifyWanted(cq, tag) == cq # NULL /\ tag # NULL

\* grpc_server_shutdown_and_notify, lines 258-267: set shutdown_called under
\* server->mutex
shutdown_set(cq, tag) ==
    /\ srv_pc = "idle"
    /\ srv_calls < MaxServerCalls
    /\ srv_calls' = srv_calls + 1
    /\ srv_shutdown_called' = TRUE
    /\ srv_cq' = cq
    /\ srv_tag' = tag
    /\ srv_i' = 0
    /\ srv_log' = Append(srv_log, NotifyCall(cq, tag))
    /\ srv_pc' = "join"
    /\ UNCHANGED <<cqvars, server_rest, srv_started, srv_ports, srv_cqs,
                   worker_threads, worker_pc, srv_last>>

\* lines 270-273: pthread_join of worker i, which returns once it has exited
shutdown_join ==
    /\ srv_pc = "join"
    /\ worker_threads
    /\ srv_i < GRPC_DEFAULT_WORKER_THREADS
    /\ worker_pc[srv_i + 1] = "exited"
    /\ srv_i' = srv_i + 1
    /\ UNCHANGED <<cqvars, server_rest, srv_started, srv_shutdown_called,
                   srv_ports, srv_cqs, worker_threads, worker_pc, srv_pc,
                   srv_cq, srv_tag, srv_calls, srv_last, srv_log>>

\* lines 270, 274-279: after the joins (or with no worker threads) free the
\* thread array; return when cq or tag is NULL
shutdown_joined ==
    /\ srv_pc = "join"
    /\ worker_threads => srv_i = GRPC_DEFAULT_WORKER_THREADS
    /\ worker_threads' = FALSE
    /\ srv_i' = 0
    /\ IF NotifyWanted(srv_cq, srv_tag)
       THEN /\ srv_pc' = "push"
            /\ UNCHANGED srv_log
       ELSE /\ srv_pc' = "idle"
            /\ srv_log' = [srv_log EXCEPT ![Len(srv_log)].returned = TRUE]
    /\ UNCHANGED <<cqvars, server_rest, srv_started, srv_shutdown_called,
                   srv_ports, srv_cqs, worker_pc, srv_cq, srv_tag, srv_calls,
                   srv_last>>

\* lines 279-284 and completion_queue_push_event up to its lock
shutdown_push_lock ==
    /\ srv_pc = "push"
    /\ MutexFree(cq_mutex)
    /\ cq_mutex' = App
    /\ srv_pc' = "push_locked"
    /\ UNCHANGED <<cq_queue, cq_shutdown, cq_waiters, pc, push_ev, ts, ev_ptr,
                   result, now, histvars, server_rest, srv_started,
                   srv_shutdown_called, srv_ports, srv_cqs, worker_threads,
                   worker_pc, srv_i, srv_cq, srv_tag, srv_calls, srv_last,
                   srv_log>>

\* completion_queue_push_event: link the node at the tail, signal, unlock
shutdown_push_append ==
    /\ srv_pc = "push_locked"
    /\ LET ev == OpCompleteEvent(srv_tag) IN
       /\ cq_queue' = EnqueueTail(cq_queue, ev)
       /\ pushed' = Append(pushed, srv_tag)
       /\ srv_log' = [srv_log EXCEPT
                         ![Len(srv_log)].events = Append(@, ev),
                         ![Len(srv_log)].exited_at_push = AllExited,
                         ![Len(srv_log)].returned = TRUE]
    /\ \E woken \in SignalChoices(cq_waiters) :
          /\ cq_waiters' = cq_waiters \ woken
          /\ pc' = [t \in CQThreads |->
                      IF t \in woken THEN "woken" ELSE pc[t]]
    /\ cq_mutex' = NoThread
    /\ srv_pc' = "idle"
    /\ UNCHANGED <<cq_shutdown, push_ev, ts, ev_ptr, result, now, tags_issued,
                   delivered, sd_returned, pushed_at_shutdown, call_view,
                   ret_view, server_rest, srv_started, srv_shutdown_called,
                   srv_ports, srv_cqs, worker_threads, worker_pc, srv_i,
                   srv_cq, srv_tag, srv_calls, srv_last>>

ServerNext ==
    \/ \E port \in PortNumbers : add_port(port)
    \/ \E cq \in ServerCqs : register_completion_queue(cq)
    \/ server_start
    \/ \E w \in ServerWorkers : worker_check(w)
    \/ \E w \in ServerWorkers : worker_poll(w)
    \/ \E cq \in {NULL, 1}, tag \in ServerTags : shutdown_set(cq, tag)
    \/ shutdown_join
    \/ shutdown_joined
    \/ shutdown_push_lock
    \/ shutdown_push_append

ServerSpec == Init /\ [][ServerNext]_vars

(***************************************************************************)
(* grpc_server_request_call (grpc_server.c 239-256) and the clients        *)
(***************************************************************************)
MaxClients == 2
RequestTags == {9}

\* the whole call: GRPC_CALL_OK for a server, a call pointer and a queue;
\* `tag` and `details` are not stored
request_call(tag) ==
    /\ srv_pc = "idle"
    /\ srv_calls < MaxServerCalls
    /\ srv_calls' = srv_calls + 1
    /\ srv_requested' = srv_requested \cup {tag}
    /\ UNCHANGED <<cqvars, config_rest, srv_backlog, srv_closed, srv_started,
                   srv_shutdown_called, srv_ports, srv_cqs, worker_threads,
                   worker_pc, srv_pc, srv_i, srv_cq, srv_tag, srv_last,
                   srv_log>>

\* a client connects to a listening port and sends HEADERS on a new stream
client_connect ==
    /\ srv_ports # <<>>
    /\ srv_backlog + srv_closed < MaxClients
    /\ srv_backlog' = srv_backlog + 1
    /\ UNCHANGED <<cqvars, config_rest, srv_requested, srv_closed, srvvars>>

RequestNext ==
    \/ \E port \in PortNumbers : add_port(port)
    \/ server_start
    \/ \E tag \in RequestTags : request_call(tag)
    \/ client_connect
    \/ \E w \in ServerWorkers : worker_check(w)
    \/ \E w \in ServerWorkers : worker_poll(w)

\* the worker threads run
RequestFairness ==
    \A w \in ServerWorkers :
        WF_vars(worker_check(w)) /\ WF_vars(worker_poll(w))

RequestSpec == Init /\ [][RequestNext]_vars /\ RequestFairness

(***************************************************************************)
(* The load balancing policy API (load_balancing.c 187-291), every call    *)
(* under policy->mutex                                                     *)
(***************************************************************************)
EarlyIdle ==
    /\ CQInit /\ ChanInit /\ CallInit /\ FlowInit /\ CodecIdle /\ MdIdle
    /\ FrameIdle /\ ServerInit

lb_rest == <<cqvars, connvars, lifevars, batchvars, fcvars, codecvars, mdvars,
             framevars, srvvars, reqvars, arrvars, poolvars>>

\* grpc_lb_policy_create(type)
LbInit ==
    /\ EarlyIdle
    /\ ArrIdle
    /\ PoolIdle
    /\ lb_type \in LbPolicyTypes
    /\ lb_addresses = <<>>
    /\ lb_current_index = 0
    /\ lb_marks = 0
    /\ lb_picks = <<>>

\* grpc_lb_policy_add_address (lines 205-232): append at the end of the list
lb_add_address(address, weight) ==
    /\ Len(lb_addresses) < MaxAddresses
    /\ lb_addresses' = Append(lb_addresses,
                              grpc_lb_address_create(address, weight))
    /\ UNCHANGED <<lb_rest, lb_type, lb_current_index, lb_marks, lb_picks>>

\* grpc_lb_policy_pick (lines 234-249) and the pick function of the type
lb_pick ==
    /\ Len(lb_picks) < MaxPicks
    /\ \/ /\ lb_type = GRPC_LB_POLICY_ROUND_ROBIN
          /\ LET r == grpc_lb_round_robin_pick(lb_addresses, lb_current_index)
             IN  /\ lb_current_index' = r.current_index
                 /\ lb_picks' = Append(lb_picks,
                                       Picked(r.result, lb_addresses))
       \/ /\ lb_type = GRPC_LB_POLICY_PICK_FIRST
          /\ lb_picks' = Append(lb_picks,
                                Picked(grpc_lb_pick_first_pick(lb_addresses),
                                       lb_addresses))
          /\ UNCHANGED lb_current_index
       \/ /\ lb_type = GRPC_LB_POLICY_WEIGHTED
          /\ \E r \in grpc_lb_weighted_pick(lb_addresses) :
                lb_picks' = Append(lb_picks, Picked(r, lb_addresses))
          /\ UNCHANGED lb_current_index
    /\ UNCHANGED <<lb_rest, lb_type, lb_addresses, lb_marks>>

\* grpc_lb_policy_mark_unavailable (lines 251-270) and
\* grpc_lb_policy_mark_available (lines 272-291): set the flag of the first
\* entry with the address; -1 and nothing changed when there is none
lb_mark(address, available) ==
    /\ lb_marks < MaxMarks
    /\ lb_marks' = lb_marks + 1
    /\ LET i == FindAddress(lb_addresses, 1, address) IN
       lb_addresses' = IF i = 0 THEN lb_addresses
                       ELSE [lb_addresses EXCEPT ![i].is_available = available]
    /\ UNCHANGED <<lb_rest, lb_type, lb_current_index, lb_picks>>

LbNext ==
    \/ \E a \in LbNames, w \in LbWeights : lb_add_address(a, w)
    \/ lb_pick
    \/ \E a \in LbNames : lb_mark(a, FALSE)
    \/ \E a \in LbNames : lb_mark(a, TRUE)

LbSpec == LbInit /\ [][LbNext]_vars

(***************************************************************************)
(* The metadata array API (part_007 lines 16-78)                           *)
(***************************************************************************)
MaxAdds == 3
\* the initial_capacity arguments of grpc_metadata_array_init
InitialCapacities == {0, 1, 2}
\* the key strings and the value buffers given to grpc_metadata_array_add;
\* value_len may be any length up to the buffer's
ArrKeys == {CString(<<97>>), CString(<<97, 98>>)}
ArrValues == {<<97>>, <<97, 0, 98>>}
\* which allocation of a call returns NULL, if any
AllocOutcomes == {"ok", "realloc", "strdup", "malloc"}

\* grpc_metadata_array_init (lines 19-33): count 0, the capacity asked for
\* or 16 when 0 is asked for
grpc_metadata_array_init(initial_capacity) ==
    [count |-> 0,
     capacity |-> IF initial_capacity > 0 THEN initial_capacity ELSE 16,
     metadata |-> <<>>]

\* lines 44-55: the capacity after the growth step
GrownCapacity(count, capacity) ==
    IF count >= capacity THEN capacity * 2 ELSE capacity

\* lines 57-70: the entry built from the copies of key and value
CopiedEntry(key, value, value_len) ==
    [key |-> StringAt(key),
     value |-> SubSeq(value, 1, value_len),
     value_length |-> value_len]

\* a store that overwrites the first entry instead of writing at `count`
StoreFirst(metadata, count, e) ==
    IF count = 0 THEN <<e>> ELSE [metadata EXCEPT ![1] = e]

\* lines 72-74: array->metadata[array->count] = the entry
StoreAtCount(metadata, count, e) ==
    [i \in 1..(count + 1) |-> IF i = count + 1 THEN e ELSE metadata[i]]

AddCall(ret, key, value, value_len) ==
    [op |-> "add", ret |-> ret, key |-> key, value |-> value,
     value_len |-> value_len, count |-> arr_count,
     capacity |-> arr_capacity, metadata |-> arr_metadata]

arr_rest == <<cqvars, connvars, lifevars, batchvars, fcvars, codecvars,
              mdvars, framevars, srvvars, reqvars, lbvars, poolvars>>

ArrInit ==
    /\ EarlyIdle
    /\ LbIdle
    /\ PoolIdle
    /\ \E c \in InitialCapacities :
          LET a == grpc_metadata_array_init(c) IN
          /\ arr_count = a.count
          /\ arr_capacity = a.capacity
          /\ arr_metadata = a.metadata
    /\ arr_last = NoAdd

\* grpc_metadata_array_add (lines 38-78); `failed` names the allocation
\* that returns NULL
grpc_metadata_array_add(key, value, value_len, failed) ==
    /\ arr_count < MaxAdds
    /\ failed = "realloc" => arr_count >= arr_capacity
    /\ IF failed = "realloc"
       THEN /\ arr_last' = AddCall(-1, key, value, value_len)
            /\ UNCHANGED <<arr_count, arr_capacity, arr_metadata>>
       ELSE /\ arr_capacity' = GrownCapacity(arr_count, arr_capacity)
            /\ IF failed \in {"strdup", "malloc"}
               THEN /\ arr_last' = AddCall(-1, key, value, value_len)
                    /\ UNCHANGED <<arr_count, arr_metadata>>
               ELSE /\ arr_metadata' =
                          StoreAtCount(arr_metadata, arr_count,
                                       CopiedEntry(key, value, value_len))
                    /\ arr_count' = arr_count + 1
                    /\ arr_last' = AddCall(0, key, value, value_len)
    /\ UNCHANGED arr_rest

ArrNext ==
    \E k \in ArrKeys, v \in ArrValues, f \in AllocOutcomes :
        \E n \in 0..Len(v) : grpc_metadata_array_add(k, v, n, f)

ArrSpec == ArrInit /\ [][ArrNext]_vars

(***************************************************************************)
(* The connection pool (connection_pool.c), every call under pool->mutex.  *)
(* An entry of the list is a struct grpc_pooled_connection; `live` is      *)
(* FALSE once grpc_pooled_connection_destroy has freed it.  A call that    *)
(* reads or frees a freed entry has undefined behaviour: the pool is then  *)
(* in the state "undefined" and nothing more is said about it.             *)
(***************************************************************************)
MaxConns == 3
MaxActive == 2
MaxPoolTime == 2
PoolTargets == {"a", "b"}
\* the arguments of grpc_connection_pool_create
PoolMaxConnections == {1, 2}
PoolIdleTimeoutMs == 1000
\* http2_connection_create returns a connection or NULL
CreateOutcomes == {TRUE, FALSE}

\* grpc_pooled_connection_create (lines 53-74)
grpc_pooled_connection_create(target, connection, at) ==
    [target |-> target, connection |-> connection, last_used |-> at,
     active_calls |-> 0, is_healthy |-> TRUE, live |-> TRUE]

\* index of the first entry from position i on that the lookup loop of get
\* (lines 191-199) stops at, 0 when it reaches the end of the list
RECURSIVE FindHealthy(_, _, _)
FindHealthy(list, i, target) ==
    IF i > Len(list) THEN 0
    ELSE IF list[i].is_healthy /\ list[i].target = target THEN i
    ELSE FindHealthy(list, i + 1, target)

\* the same for the loop of return (lines 242-252)
RECURSIVE FindConnection(_, _, _, _)
FindConnection(list, i, target, connection) ==
    IF i > Len(list) THEN 0
    ELSE IF list[i].connection = connection /\ list[i].target = target THEN i
    ELSE FindConnection(list, i + 1, target, connection)

\* the entries a loop visits that stopped at index `found`
Visited(list, found) == IF found = 0 THEN 1..Len(list) ELSE 1..found

\* the loop touches an entry that has been freed
TouchesFreed(list, found) == \E i \in Visited(list, found) : ~list[i].live

\* lines 207-216: the first entry with no active call whose idle time is
\* the greatest, 0 when every entry has active calls
RECURSIVE OldestIdle(_, _, _, _)
OldestIdle(list, i, oldest, at) ==
    IF i > Len(list) THEN oldest
    ELSE IF list[i].active_calls = 0
            /\ (oldest = 0
                \/ at - list[i].last_used > at - list[oldest].last_used)
         THEN OldestIdle(list, i + 1, i, at)
         ELSE OldestIdle(list, i + 1, oldest, at)

\* lines 218-221: grpc_pooled_connection_destroy(oldest); the entry is freed
\* and stays where it is in the list
Evict(list, i) == [list EXCEPT ![i].live = FALSE]

\* lines 272-293: the list without the entries with no active call that are
\* not healthy
RECURSIVE CleanedList(_, _)
CleanedList(list, i) ==
    IF i > Len(list) THEN <<>>
    ELSE IF list[i].active_calls = 0 /\ ~list[i].is_healthy
         THEN CleanedList(list, i + 1)
         ELSE <<list[i]>> \o CleanedList(list, i + 1)

\* lines 113-119 of the keep-alive thread: an entry with no active call
\* whose idle time has reached pool->idle_timeout_ms is marked unhealthy
IdleChecked(list, at) ==
    [i \in 1..Len(list) |->
        IF list[i].active_calls = 0
           /\ (at - list[i].last_used) * 1000 >= PoolIdleTimeoutMs
        THEN [list[i] EXCEPT !.is_healthy = FALSE]
        ELSE list[i]]

PoolCall(op, ret) == [op |-> op, ret |-> ret]

pool_rest == <<cqvars, connvars, lifevars, batchvars, fcvars, codecvars,
               mdvars, framevars, srvvars, reqvars, lbvars, arrvars>>

\* grpc_connection_pool_create(max_connections, PoolIdleTimeoutMs)
PoolInit ==
    /\ EarlyIdle
    /\ LbIdle
    /\ ArrIdle
    /\ pool_connections = <<>>
    /\ pool_current = 0
    /\ pool_max \in PoolMaxConnections
    /\ pool_now = 0
    /\ pool_made = 0
    /\ pool_state = "ok"
    /\ pool_last = [op |-> "none"]

\* a call whose loop reads a freed entry
pool_undefined(op) ==
    /\ pool_state' = "undefined"
    /\ pool_last' = PoolCall(op, NULL)
    /\ UNCHANGED <<pool_connections, pool_current, pool_max, pool_now,
                   pool_made>>

\* grpc_connection_pool_get (lines 183-234)
grpc_connection_pool_get(target, created) ==
    /\ pool_state = "ok"
    /\ LET found == FindHealthy(pool_connections, 1, target) IN
       IF found = 0 THEN pool_made < MaxConns
       ELSE pool_connections[found].active_calls < MaxActive
    /\ LET list  == pool_connections
           found == FindHealthy(list, 1, target)
           full  == pool_current >= pool_max
           oldest == OldestIdle(list, 1, 0, pool_now)
           evicted == IF full THEN Evict(list, oldest) ELSE list
           count == IF full THEN pool_current - 1 ELSE pool_current
       IN
       IF TouchesFreed(list, found) THEN pool_undefined("get")
       ELSE IF found # 0
       THEN /\ pool_connections' =
                  [list EXCEPT ![found].last_used = pool_now,
                               ![found].active_calls = @ + 1]
            /\ pool_last' = PoolCall("get", list[found].connection)
            /\ UNCHANGED <<pool_current, pool_max, pool_now, pool_made,
                           pool_state>>
       ELSE IF full /\ oldest = 0
       THEN /\ pool_last' = PoolCall("get", NULL)
            /\ UNCHANGED <<pool_connections, pool_current, pool_max,
                           pool_now, pool_made, pool_state>>
       ELSE IF ~created
       THEN /\ pool_connections' = evicted
            /\ pool_current' = count
            /\ pool_last' = PoolCall("get", NULL)
            /\ UNCHANGED <<pool_max, pool_now, pool_made, pool_state>>
       ELSE /\ pool_made' = pool_made + 1
            /\ pool_connections' =
                  <<[grpc_pooled_connection_create(target, pool_made + 1,
                                                   pool_now)
                       EXCEPT !.active_calls = 1]>> \o evicted
            /\ pool_current' = count + 1
            /\ pool_last' = PoolCall("get", pool_made + 1)
            /\ UNCHANGED <<pool_max, pool_now, pool_state>>
    /\ UNCHANGED <<cqvars, pool_rest>>

\* grpc_connection_pool_return (lines 236-258)
grpc_connection_pool_return(target, connection) ==
    /\ pool_state = "ok"
    /\ LET list  == pool_connections
           found == FindConnection(list, 1, target, connection)
       IN
       IF TouchesFreed(list, found) THEN pool_undefined("return")
       ELSE IF found # 0
       THEN /\ pool_connections' =
                  [list EXCEPT ![found].last_used = pool_now,
                               ![found].active_calls =
                                    IF @ > 0 THEN @ - 1 ELSE @]
            /\ pool_last' = PoolCall("return", 0)
            /\ UNCHANGED <<pool_current, pool_max, pool_now, pool_made,
                           pool_state>>
       ELSE /\ pool_last' = PoolCall("return", -1)
            /\ UNCHANGED <<pool_connections, pool_current, pool_max,
                           pool_now, pool_made, pool_state>>
    /\ UNCHANGED <<cqvars, pool_rest>>

\* grpc_connection_pool_cleanup_idle (lines 260-293)
grpc_connection_pool_cleanup_idle ==
    /\ pool_state = "ok"
    /\ LET list == pool_connections
           cleaned == CleanedList(list, 1)
       IN
       IF TouchesFreed(list, 0) THEN pool_undefined("cleanup_idle")
       ELSE /\ pool_connections' = cleaned
            /\ pool_current' = pool_current - (Len(list) - Len(cleaned))
            /\ pool_last' = PoolCall("cleanup_idle", Len(list) - Len(cleaned))
            /\ UNCHANGED <<pool_max, pool_now, pool_made, pool_state>>
    /\ UNCHANGED <<cqvars, pool_rest>>

\* one pass of grpc_keepalive_thread_func (lines 94-124) over the list
keepalive_pass ==
    /\ pool_state = "ok"
    /\ pool_connections # <<>>
    /\ IF TouchesFreed(pool_connections, 0) THEN pool_undefined("keepalive")
       ELSE /\ pool_connections' = IdleChecked(pool_connections, pool_now)
            /\ pool_last' = PoolCall("keepalive", 0)
            /\ UNCHANGED <<pool_current, pool_max, pool_now, pool_made,
                           pool_state>>
    /\ UNCHANGED <<cqvars, pool_rest>>

\* a second passes
pool_tick ==
    /\ pool_state = "ok"
    /\ pool_now < MaxPoolTime
    /\ pool_now' = pool_now + 1
    /\ UNCHANGED <<pool_connections, pool_current, pool_max, pool_made,
                   pool_state, pool_last>>
    /\ UNCHANGED <<cqvars, pool_rest>>

PoolNext ==
    \/ \E t \in PoolTargets, c \in CreateOutcomes :
          grpc_connection_pool_get(t, c)
    \/ \E t \in PoolTargets, c \in 1..MaxConns :
          grpc_connection_pool_return(t, c)
    \/ grpc_connection_pool_cleanup_idle
    \/ keepalive_pass
    \/ pool_tick

PoolSpec == PoolInit /\ [][PoolNext]_vars

(***************************************************************************)
(* Fairness: a thread that holds cq->mutex runs on to its unlock, a thread *)
(* whose wait has ended gets cq->mutex eventually.  Calling push, next or  *)
(* shutdown is up to the application, and nothing obliges the clock.       *)
(***************************************************************************)
CQFairness ==
    /\ \A p \in Producers : WF_vars(push_event_append(p))
    /\ \A c \in Consumers :
          /\ WF_vars(cq_next_einval(c))
          /\ WF_vars(cq_next_wait(c))
          /\ WF_vars(cq_next_return_shutdown(c))
          /\ WF_vars(cq_next_take(c))
          /\ WF_vars(cq_next_unlink(c))
          /\ SF_vars(cq_next_reacquire(c))
          /\ SF_vars(cq_next_return_timeout(c))
    /\ WF_vars(cq_shutdown_set)
    /\ WF_vars(cq_shutdown_broadcast)

CQLiveSpec == Init /\ [][CQNext]_vars /\ CQFairness

(***************************************************************************)
(* Helpers of the properties                                               *)
(***************************************************************************)
IsPrefix(a, b) == Len(a) <= Len(b) /\ \A i \in 1..Len(a) : a[i] = b[i]

Count(seq, x) == Cardinality({i \in DOMAIN seq : seq[i] = x})

QueueTags == [i \in DOMAIN cq_queue |-> cq_queue[i].tag]

\* producers that hold an event not yet linked into the list
Pushing(tag) == {p \in Producers : pc[p] = "push_locked" /\ push_ev[p].tag = tag}

Returned(c) == pc[c] = "returned"

\* consumers whose call has returned the event with this tag
Holders(tag) ==
    {c \in Consumers : Returned(c) /\ ret_view[c].path = "event"
                                   /\ result[c].tag = tag}

\* the call of c found the queue empty and not shut down, its deadline past
PastCall(c) ==
    /\ call_view[c].called
    /\ call_view[c].empty
    /\ ~call_view[c].sd
    /\ call_view[c].past

(***************************************************************************)
(* C1: the completion queue is FIFO: the events that next calls take off   *)
(* the queue are, in order, the events in the order push linked them in.   *)
(***************************************************************************)
C1_Fifo == IsPrefix(delivered, pushed)

\* two events have been pushed and both have been returned
C1_Witness ==
    /\ Len(delivered) = 2
    /\ \A p \in Producers : pc[p] = "idle"
    /\ cq_queue = <<>>

(***************************************************************************)
(* C2: once the queue is shut down, a completion_queue_push_event is a     *)
(* no-op: the step that completes a push leaves the queue unchanged.       *)
(* (The code never reads cq->shutdown in push: TLC refutes this.)          *)
(***************************************************************************)
C2_PushAfterShutdownIsNoop ==
    [][(cq_shutdown /\ \E p \in Producers : pc[p] = "push_locked" /\ pc'[p] = "idle")
        => cq_queue' = cq_queue]_vars

(***************************************************************************)
(* C3: events enqueued before the shutdown are all returned, in order,     *)
(* before any next call returns the shutdown event.                        *)
(***************************************************************************)
C3_DrainBeforeShutdownEvent ==
    sd_returned =>
        /\ pushed_at_shutdown >= 0
        /\ Len(delivered) >= pushed_at_shutdown
        /\ \A i \in 1..pushed_at_shutdown : delivered[i] = pushed[i]

\* two events were in the list at shutdown, and the shutdown event came
C3_Witness == sd_returned /\ pushed_at_shutdown = 2

(***************************************************************************)
(* C4 as claimed: whenever next returns, it returns the head event if the  *)
(* queue is non-empty, the shutdown event if the queue is shut down and    *)
(* empty, and otherwise the timeout event with success = false.            *)
(***************************************************************************)
C4_ReturnByQueueState ==
    \A c \in Consumers : Returned(c) =>
        LET v == ret_view[c] IN
        /\ v.qlen > 0 => v.path = "event" /\ result[c].tag = v.head
        /\ (v.qlen = 0 /\ v.sd) => v.path = "shutdown" /\ result[c] = ShutdownEvent
        /\ (v.qlen = 0 /\ ~v.sd) => v.path = "timeout" /\ result[c] = TimeoutEvent

(***************************************************************************)
(* C4 as amended: a next call whose timed wait did not fail returns the    *)
(* head event if the queue is non-empty and the shutdown event if the      *)
(* queue is shut down and empty; a call whose pthread_cond_timedwait       *)
(* failed (deadline passed, or timespec invalid) returns the timeout event *)
(* with success = false, whatever the queue holds by then; and the timeout *)
(* event is returned in no other case.                                     *)
(***************************************************************************)
C4_ReturnByPath ==
    \A c \in Consumers : Returned(c) =>
        LET v == ret_view[c] IN
        /\ v.path \in {"event", "shutdown", "timeout"}
        /\ v.path = "event" =>
              /\ v.qlen > 0
              /\ result[c] = OpCompleteEvent(v.head)
        /\ v.path = "shutdown" =>
              /\ v.qlen = 0 /\ v.sd
              /\ result[c] = ShutdownEvent
        /\ v.path = "timeout" =>
              /\ result[c].type = QUEUE_TIMEOUT_TYPE /\ ~result[c].success
              /\ ~TimespecValid(ts[c]) \/ ~BeforeDeadline(v.at, ts[c])

\* the timed wait expired, and an event arrived before the lock was retaken
C4_Witness ==
    \E c \in Consumers :
        Returned(c) /\ ret_view[c].path = "timeout" /\ ret_view[c].qlen > 0

(***************************************************************************)
(* C5: once a next call has returned the shutdown event, no further event  *)
(* is returned.  (A push after the shutdown is not rejected, see C2, so    *)
(* TLC refutes this.)                                                      *)
(***************************************************************************)
C5_NothingAfterShutdownEvent == [][sd_returned => delivered' = delivered]_vars

(***************************************************************************)
(* C6: every consumer blocked in next is woken by the shutdown and         *)
(* returns, however many consumers are blocked.                            *)
(***************************************************************************)
C6_BlockedConsumersReturn ==
    \A c \in Consumers : (pc[c] = "waiting" /\ cq_shutdown) ~> Returned(c)

\* every consumer is blocked at the moment the flag is set
C6_Witness == cq_shutdown /\ \A c \in Consumers : pc[c] = "waiting"

(***************************************************************************)
(* C7: every pushed event is in exactly one place: still with its          *)
(* producer, in the queue, or taken off the queue by exactly one next      *)
(* call; and no two consumers hold the same returned event.                *)
(***************************************************************************)
C7_ExactlyOnce ==
    /\ \A t \in 1..tags_issued :
          Cardinality(Pushing(t)) + Count(QueueTags, t) + Count(delivered, t) = 1
    /\ \A t \in 1..tags_issued : Cardinality(Holders(t)) <= 1
    /\ \A c \in Consumers :
          (Returned(c) /\ ret_view[c].path = "event") => Count(delivered, result[c].tag) = 1

\* both consumers have returned from next, each with its own event
C7_Witness ==
    /\ \A c \in Consumers : Returned(c) /\ ret_view[c].path = "event"
    /\ Cardinality({result[c].tag : c \in Consumers}) = Cardinality(Consumers)

(***************************************************************************)
(* C8: a next call with a deadline in the past, on an empty queue that is  *)
(* not shut down, never blocks on the condition variable and returns the   *)
(* timeout event.                                                          *)
(***************************************************************************)
C8_PastDeadlineNoBlock ==
    \A c \in Consumers : PastCall(c) =>
        /\ pc[c] \notin {"waiting", "woken"}
        /\ Returned(c) => ret_view[c].path = "timeout" /\ result[c] = TimeoutEvent

\* such a call has returned
C8_Witness == \E c \in Consumers : PastCall(c) /\ Returned(c)

(***************************************************************************)
(* C9: next returns the timeout event only at or after the deadline it was *)
(* given.  (An out-of-range tv_nsec makes pthread_cond_timedwait fail at   *)
(* once and the code reports that as a timeout: TLC refutes this.)         *)
(***************************************************************************)
C9_TimeoutNotBeforeDeadline ==
    \A c \in Consumers :
        (Returned(c) /\ ret_view[c].path = "timeout")
            => ~BeforeDeadline(ret_view[c].at, ts[c])

(***************************************************************************)
(* C10: the stream ids assigned on one channel are odd and strictly        *)
(* increasing in the order of assignment (hence distinct), and             *)
(* next_stream_id has advanced by exactly 2 for every stream.              *)
(***************************************************************************)
C10_StreamIds ==
    /\ \A i \in DOMAIN assigned : assigned[i] % 2 = 1
    /\ \A i, j \in DOMAIN assigned : i < j => assigned[i] < assigned[j]
    /\ next_stream_id =
          CLIENT_FIRST_STREAM_ID
          + 2 * (Len(assigned) + Cardinality({t \in Callers : cpc[t] = "cc_advanced"}))

\* three streams exist while the other callers queue up for channel->mutex
C10_Witness ==
    /\ Len(assigned) >= 3
    /\ \E t \in Callers : cpc[t] = "cc_begin" /\ ~MutexFree(chan_mutex)

(***************************************************************************)
(* C11: in every sequence of grpc_channel_create_call and                  *)
(* grpc_call_destroy followed by grpc_channel_destroy, every operation     *)
(* succeeds and every stream object is released exactly once: no stream is *)
(* freed twice, and once the channel is destroyed every stream has been    *)
(* freed.  (grpc_call_destroy frees the stream and leaves it in            *)
(* conn->streams, and http2_connection_destroy frees every stream in       *)
(* conn->streams: TLC refutes this.)                                       *)
(***************************************************************************)
C11_StreamsReleasedOnce ==
    /\ ~aborted
    /\ \A s \in StreamIds : stream_frees[s] <= 1
    /\ chan_state = "destroyed" =>
          \A i \in DOMAIN assigned : stream_frees[assigned[i]] = 1

(***************************************************************************)
(* C12: while the channel lives, the stream of a call that                 *)
(* grpc_call_destroy has returned from is no longer in the connection's    *)
(* registry, and every stream in the registry whose call is not being      *)
(* destroyed is live (not freed).  (http2_stream_destroy does not touch    *)
(* conn->streams: TLC refutes this.)                                       *)
(***************************************************************************)
C12_RegistryHoldsLiveStreams ==
    chan_state = "live" =>
        \A i \in DOMAIN conn_streams :
            LET s == conn_streams[i] IN
            /\ call[s].state # "freed"
            /\ call[s].state # "destroying" => stream_frees[s] = 0

(***************************************************************************)
(* Helpers of the properties of calls and batches                          *)
(***************************************************************************)
\* the log entry of the batch that carries this tag
BatchOf(tag) == batch_log[CHOOSE i \in DOMAIN batch_log : batch_log[i].tag = tag]

\* the start_batch call of this tag has not returned yet
BatchInProgress(tag) ==
    \E t \in Callers : cpc[t] \in {"sb_event", "sb_locked"} /\ batch_ev[t].tag = tag

\* the events of batches that are in the queue
BatchEvents ==
    {cq_queue[k] : k \in {j \in DOMAIN cq_queue :
        \E i \in DOMAIN batch_log : batch_log[i].tag = cq_queue[j].tag}}

\* position of x in seq, 0 when absent
Pos(seq, x) ==
    IF \E k \in DOMAIN seq : seq[k] = x
    THEN CHOOSE k \in DOMAIN seq : seq[k] = x
    ELSE 0

\* cancelled and status agree on whether the call was cancelled
CancelConsistent(c) == c.cancelled <=> (c.status = GRPC_STATUS_CANCELLED)

(***************************************************************************)
(* C13: every grpc_call_start_batch that returns GRPC_CALL_OK enqueues     *)
(* exactly one event with the batch's tag, with success = true if all ops  *)
(* completed and success = false if an op failed (the call was cancelled   *)
(* or past its deadline when the batch was submitted).  (The code sets     *)
(* success = true whatever the call's state: TLC refutes this.)            *)
(***************************************************************************)
C13_OneEventPerBatch ==
    /\ \A i \in DOMAIN batch_log :
          Count(pushed, batch_log[i].tag) =
              IF BatchInProgress(batch_log[i].tag) THEN 0 ELSE 1
    /\ \A e \in BatchEvents :
          e.success = ~(BatchOf(e.tag).cancelled \/ BatchOf(e.tag).late)

(***************************************************************************)
(* C14: the completion event of a batch of a cancelled call has            *)
(* success = false, and the call's status is CANCELLED.  (TLC refutes      *)
(* this: the event has success = true.)                                    *)
(***************************************************************************)
C14_CancelledBatchFails ==
    \A e \in BatchEvents :
        BatchOf(e.tag).cancelled =>
            /\ ~e.success
            /\ call[BatchOf(e.tag).call].status = GRPC_STATUS_CANCELLED

(***************************************************************************)
(* C15: events of one call come out of the queue in batch-submission       *)
(* order: if start_batch of A had enqueued and returned before start_batch *)
(* of B on the same call began, next returns A's event before B's.         *)
(***************************************************************************)
C15_BatchOrder ==
    \A i, j \in DOMAIN batch_log :
        (/\ batch_log[i].call = batch_log[j].call
         /\ batch_log[i].tag \in batch_log[j].after
         /\ Pos(delivered, batch_log[j].tag) > 0)
        => /\ Pos(delivered, batch_log[i].tag) > 0
           /\ Pos(delivered, batch_log[i].tag) < Pos(delivered, batch_log[j].tag)

\* two batches of one call, submitted one after the other, both returned
C15_Witness ==
    \E j \in DOMAIN batch_log :
        /\ batch_log[j].after # {}
        /\ Pos(delivered, batch_log[j].tag) > 0

C17_LateBatchFails ==
    \A e \in BatchEvents :
        BatchOf(e.tag).late =>
            /\ ~e.success
            /\ call[BatchOf(e.tag).call].status = GRPC_STATUS_DEADLINE_EXCEEDED

C19_SendWindowNeverOverdrawn ==
    ~flow_hist.big =>
        /\ flow_hist.consumed_conn - HTTP2_DEFAULT_WINDOW_SIZE
               <= flow_hist.inc_conn
        /\ \A s \in StreamIds :
               flow_hist.consumed_stream[s] - HTTP2_DEFAULT_WINDOW_SIZE
                   <= flow_hist.inc_stream[s]

(***************************************************************************)
(* C20: can_send(conn, stream, n) returns 1 if and only if n is at most    *)
(* the connection window and at most the stream window it read, for every  *)
(* size n, sizes of 2^31 and more included.                                *)
(***************************************************************************)
C20_CanSendIffFits ==
    can_send_view # NoSendView =>
        (can_send_view.ret = 1 <=>
            /\ SizeLeq(can_send_view.n, can_send_view.conn)
            /\ SizeLeq(can_send_view.n, can_send_view.stream))

(***************************************************************************)
(* C21: receive_window_update rejects an increment outside 1..2^31-1 and   *)
(* returns an error whenever window + increment exceeds 2^31-1, so that,   *)
(* before any sender has acted, the connection's and every stream's remote *)
(* window is in 0..2^31-1.                                                 *)
(***************************************************************************)
C21_RemoteWindowInRange ==
    /\ flow_hist.overflow # "missed"
    /\ flow_hist.sends = 0 =>
          /\ conn_remote_window_size >= 0
          /\ conn_remote_window_size <= INT32_MAX
          /\ \A s \in StreamIds :
                /\ stream_remote_window_size[s] >= 0
                /\ stream_remote_window_size[s] <= INT32_MAX

\* the frames written since the last consume_recv_window call began
FramesOfCall == SubSeq(frames_sent, recv_view.frames + 1, Len(frames_sent))

\* what the claim expects of a scope whose window was w before n bytes
\* arrived: the window afterwards, and the frames written for it
ExpectedWindow(w, n) ==
    IF WindowLow(w - n) THEN HTTP2_DEFAULT_WINDOW_SIZE ELSE w - n
ExpectedFrames(sid, w, n) ==
    IF WindowLow(w - n) THEN <<WindowUpdateFrame(sid, w - n)>> ELSE <<>>

(***************************************************************************)
(* C22: a consume_recv_window call that succeeds returns, having           *)
(* decremented both local windows by n, and for each scope whose window    *)
(* thereby dropped below half of 65,535 (the code's 65535 / 2) having      *)
(* written one WINDOW_UPDATE with increment (initial - current) for that   *)
(* scope and restored that scope's window to the initial value.  Stated    *)
(* for sizes below 2^31.                                                   *)
(***************************************************************************)
C22_RecvWindowReplenished ==
    /\ rx_pc # "cr_deadlock"
    /\ (recv_view.done /\ recv_view.ret = 0 /\ recv_view.n.hi = 0) =>
          /\ conn_local_window_size =
                ExpectedWindow(recv_view.conn, recv_view.n.lo)
          /\ stream_local_window_size[recv_view.stream] =
                ExpectedWindow(recv_view.swin, recv_view.n.lo)
          /\ FramesOfCall =
                ExpectedFrames(0, recv_view.conn, recv_view.n.lo)
                \o ExpectedFrames(recv_view.stream, recv_view.swin,
                                  recv_view.n.lo)

(***************************************************************************)
(* C23: a consume_recv_window call whose size exceeds the connection's or  *)
(* the stream's local window returns an error, and no local window is ever *)
(* negative.                                                               *)
(***************************************************************************)
C23_RecvUnderflowRejected ==
    /\ conn_local_window_size >= 0
    /\ \A s \in StreamIds : stream_local_window_size[s] >= 0
    /\ (recv_view.done /\ (\/ ~SizeLeq(recv_view.n, recv_view.conn)
                           \/ ~SizeLeq(recv_view.n, recv_view.swin))) =>
          recv_view.ret = -1

\* the position of the first byte after the prefix byte that has no
\* continuation bit, or 0 when there is none
Terminator(input) ==
    IF \E i \in 2..Len(input) : input[i] < 128
    THEN CHOOSE i \in 2..Len(input) :
             input[i] < 128 /\ \A j \in 2..(i - 1) : input[j] >= 128
    ELSE 0

\* d * 2^m as a pair, for any shift
ExactShifted(d, m) ==
    IF m <= 28 THEN Shifted(d, m) ELSE Size(d * 2^(m - 31), 0)

\* the number a byte string encodes with prefix p: the prefix value plus the
\* 7-bit groups up to the terminator, without reduction
RECURSIVE GroupSum(_, _, _)
GroupSum(input, i, last) ==
    IF i > last THEN Size(0, 0)
    ELSE PairAdd(ExactShifted(input[i] % 128, 7 * (i - 2)),
                 GroupSum(input, i + 1, last))
EncodedNumber(input, p) ==
    PairAdd(Size(0, MaxPrefix(p)), GroupSum(input, 2, Terminator(input)))

HasContinuation(input, p) ==
    Len(input) > 0 /\ input[1] % (MaxPrefix(p) + 1) = MaxPrefix(p)
Truncated(input, p) == HasContinuation(input, p) /\ Terminator(input) = 0
Oversized(input, p) ==
    /\ HasContinuation(input, p)
    /\ Terminator(input) # 0
    /\ EncodedNumber(input, p).hi > 1

(***************************************************************************)
(* C24: for every value in 0..2^32-2 and every prefix in 1..7,             *)
(* hpack_decode_integer applied to the bytes hpack_encode_integer wrote    *)
(* returns the same value and reports as bytes read the number of bytes    *)
(* the encoder wrote.                                                      *)
(***************************************************************************)
C24_IntegerRoundTrip ==
    (/\ hp_pc = "decoded"
     /\ hp_enc.ret > 0
     /\ hp_prefix \in 1..MaxHpackPrefix
     /\ hp_value # Size(1, INT32_MAX)) =>
        /\ hp_dec.ret = hp_enc.ret
        /\ hp_dec.value = hp_value

\* a value of 2^31 or more was encoded into six bytes and decoded
C24_Witness ==
    /\ hp_pc = "decoded"
    /\ hp_prefix \in 1..MaxHpackPrefix
    /\ hp_value.hi = 1
    /\ hp_enc.ret = 6
    /\ hp_dec.ret = 6

(***************************************************************************)
(* C25: hpack_decode_integer returns an error for every input whose        *)
(* continuation bytes end without a terminating byte and for every input   *)
(* whose encoded value does not fit in 32 bits, with a prefix in 1..7.     *)
(***************************************************************************)
C25_MalformedRejected ==
    (/\ hp_pc = "decoded"
     /\ hp_prefix \in 1..MaxHpackPrefix
     /\ Truncated(hp_in, hp_prefix) \/ Oversized(hp_in, hp_prefix)) =>
        hp_dec.ret = -1

(***************************************************************************)
(* C26: a metadata array that was encoded into a header block decodes to   *)
(* the same (key, value, value_length) entries in the same order, whatever *)
(* bytes its values hold.                                                  *)
(***************************************************************************)
C26_MetadataRoundTrip ==
    md_pc = "decoded" => md_dec.ret = 0 /\ md_dec.metadata = md_in

\* the same for arrays whose values hold no 0 byte
TextValuesRoundTrip ==
    (md_pc = "decoded"
     /\ \A i \in 1..Len(md_in) :
            \A j \in 1..Len(md_in[i].value) : md_in[i].value[j] # 0) =>
        md_dec.ret = 0 /\ md_dec.metadata = md_in

(***************************************************************************)
(* C27: recv_frame returns an error for a frame whose header declares a    *)
(* length above the connection's max_frame_size, and a reserved bit set in *)
(* the received stream id is cleared without being an error.               *)
(***************************************************************************)
C27_OversizedFrameRejected ==
    \A i \in 1..Len(recv_log) :
        LET e == recv_log[i] IN
        e.decoded =>
            /\ e.header.length > max_frame_size => e.ret = -1
            /\ e.header.stream_id.hi = 0
            /\ (e.bytes[6] >= 128 /\ e.header.length <= max_frame_size
                 /\ ~wire_closed) => e.ret = 0

\* the second half of C27 alone
ReservedBitIgnored ==
    \A i \in 1..Len(recv_log) :
        LET e == recv_log[i] IN
        e.decoded =>
            /\ e.header.stream_id.hi = 0
            /\ (e.bytes[6] >= 128 /\ ~wire_closed) => e.ret = 0

(***************************************************************************)
(* C28: the nine bytes send_frame writes for a header with a 24-bit        *)
(* length, an 8-bit type, 8-bit flags and a 31-bit stream id are decoded   *)
(* by recv_frame to the same four fields, and carry a cleared reserved bit *)
(* whatever the top bit of the stream id given to send_frame.              *)
(***************************************************************************)
C28_FrameHeaderRoundTrip ==
    /\ \A i \in 1..Len(recv_log) :
          LET e == recv_log[i] IN
          (e.from_send /\ e.sent.stream_id.hi = 0) => e.header = e.sent
    /\ \A i \in 1..Len(wire) :
          (wire[i].kind = "header" /\ wire[i].from_send) =>
              /\ Len(wire[i].bytes) = HTTP2_FRAME_HEADER_SIZE
              /\ wire[i].bytes[6] < 128

\* a frame with a three-byte length and the largest stream id has been sent
\* and received, header and payload
C28_Witness ==
    \E i \in 1..Len(recv_log) :
        LET e == recv_log[i] IN
        /\ e.from_send /\ e.decoded /\ e.ret = 0
        /\ e.sent.length = max_frame_size
        /\ e.sent.stream_id = Size(0, INT32_MAX)
        /\ e.sent.flags = 255
        /\ e.header = e.sent

(***************************************************************************)
(* C29: a shutdown_and_notify(cq, tag) call on a started server enqueues   *)
(* exactly one event {tag, success = true} on cq, whatever the tag, and    *)
(* only once every worker thread has exited.                               *)
(***************************************************************************)
C29_ShutdownNotifies ==
    \A i \in 1..Len(srv_log) :
        LET c == srv_log[i] IN
        (c.started /\ c.cq # NULL) =>
            /\ Len(c.events) <= 1
            /\ c.exited_at_push
            /\ c.returned => c.events = <<Event(OP_COMPLETE_TYPE, TRUE, c.tag)>>

\* the same for the calls whose tag is not NULL
NonNullTagNotified ==
    \A i \in 1..Len(srv_log) :
        LET c == srv_log[i] IN
        (c.started /\ c.cq # NULL /\ c.tag # NULL) =>
            /\ Len(c.events) <= 1
            /\ c.exited_at_push
            /\ c.returned => c.events = <<Event(OP_COMPLETE_TYPE, TRUE, c.tag)>>

(***************************************************************************)
(* C30: once the server has started, add_port returns 0 and leaves the     *)
(* port list as it was, and registering a completion queue leaves the      *)
(* registered queues as they were.                                         *)
(***************************************************************************)
C30_ConfigFrozenAfterStart ==
    srv_last.started =>
        /\ srv_last.ports_after = srv_last.ports_before
        /\ srv_last.cqs_after = srv_last.cqs_before
        /\ srv_last.op = "add_port" => srv_last.ret = 0

\* the first half of C30 alone
PortsFrozenAfterStart ==
    (srv_last.started /\ srv_last.op = "add_port") =>
        srv_last.ports_after = srv_last.ports_before /\ srv_last.ret = 0

(***************************************************************************)
(* C31: add_port returns the port the socket was bound to, which is never  *)
(* 0, also for an address that asks for port 0; it returns 0 when the      *)
(* port was not added.                                                     *)
(***************************************************************************)
C31_ReturnsBoundPort ==
    srv_last.op = "add_port" =>
        IF srv_last.ports_after # srv_last.ports_before
        THEN srv_last.ret > 0 /\ srv_last.ret = srv_last.bound
        ELSE srv_last.ret = 0

\* the same for the addresses that name a port in 1..65535
NamedPortReturned ==
    (srv_last.op = "add_port" /\ srv_last.ports_after # srv_last.ports_before
     /\ srv_last.ports_after[Len(srv_last.ports_after)] \in 1..65535) =>
        srv_last.ret > 0 /\ srv_last.ret = srv_last.bound

(***************************************************************************)
(* C32: once a client has sent HEADERS on a new stream to a started server *)
(* on which request_call(tag) was called, a new-call event carrying that   *)
(* tag is eventually enqueued on the completion queue.                     *)
(***************************************************************************)
NewCallEvent(tag) == \E i \in 1..Len(pushed) : pushed[i] = tag
C32_NewCallEventEnqueued ==
    \A tag \in RequestTags :
        (srv_started /\ tag \in srv_requested /\ srv_backlog + srv_closed > 0)
            ~> NewCallEvent(tag)

(***************************************************************************)
(* C33: with N addresses added and all of them available, the k-th pick of *)
(* a round-robin policy returns the address added at position              *)
(* (k-1) mod N, so that consecutive picks differ when N > 1 and pick N+1   *)
(* equals pick 1.                                                          *)
(***************************************************************************)
\* every pick so far was made on the present list with every address
\* available
PicksOnFullList ==
    \A k \in 1..Len(lb_picks) :
        /\ lb_picks[k].count = Len(lb_addresses)
        /\ lb_picks[k].available = 1..Len(lb_addresses)

C33_RoundRobinCycles ==
    (lb_type = GRPC_LB_POLICY_ROUND_ROBIN /\ lb_addresses # <<>>
     /\ PicksOnFullList) =>
        LET N == Len(lb_addresses) IN
        /\ \A k \in 1..Len(lb_picks) :
              lb_picks[k].result = ((k - 1) % N) + 1
        /\ \A k \in 1..(Len(lb_picks) - 1) :
              N > 1 => lb_picks[k].result # lb_picks[k + 1].result
        /\ Len(lb_picks) > N => lb_picks[N + 1].result = lb_picks[1].result

\* three addresses and four picks: the fourth pick is the first address
C33_Witness ==
    /\ lb_type = GRPC_LB_POLICY_ROUND_ROBIN
    /\ Len(lb_addresses) = 3
    /\ PicksOnFullList
    /\ Len(lb_picks) = 4
    /\ lb_picks[4].result = 1
    /\ lb_picks[3].result = 3

(***************************************************************************)
(* C40: a pick never returns an address that is marked unavailable, and a  *)
(* round-robin or pick-first pick returns an address whenever one is       *)
(* available.                                                              *)
(***************************************************************************)
C40_PickAvailable ==
    \A k \in 1..Len(lb_picks) :
        LET p == lb_picks[k] IN
        /\ p.result # 0 => p.result \in p.available
        /\ (lb_type \in {GRPC_LB_POLICY_ROUND_ROBIN, GRPC_LB_POLICY_PICK_FIRST}
            /\ p.available # {}) => p.result # 0

\* a round-robin pick that started at an unavailable address returned the
\* next available one
C40_Witness ==
    /\ lb_type = GRPC_LB_POLICY_ROUND_ROBIN
    /\ \E k \in 2..Len(lb_picks) :
          /\ lb_picks[k - 1].result = 1
          /\ lb_picks[k].available = {1, 3}
          /\ lb_picks[k].result = 3

(***************************************************************************)
(* C38: a consume_recv_window call that returns an error has modified      *)
(* neither the connection's nor the stream's local window and has written  *)
(* no WINDOW_UPDATE frame.                                                 *)
(***************************************************************************)
C38_RejectedRecvUnchanged ==
    (recv_view.done /\ recv_view.ret = -1) =>
        /\ conn_local_window_size = recv_view.conn
        /\ recv_view.stream # NULL =>
               stream_local_window_size[recv_view.stream] = recv_view.swin
        /\ Len(frames_sent) = recv_view.frames

\* the same for the calls rejected before the connection's window is touched
EarlyRejectUnchanged ==
    (recv_view.done /\ recv_view.ret = -1
     /\ (RecvRejected(recv_view.n) \/ ~SizeLeq(recv_view.n, recv_view.conn))) =>
        /\ conn_local_window_size = recv_view.conn
        /\ Len(frames_sent) = recv_view.frames

(***************************************************************************)
(* C34: no thread waits forever on a mutex, including one it already       *)
(* holds: the thread that consumes the receive window is never blocked in  *)
(* pthread_mutex_lock on the conn->write_mutex it holds itself.            *)
(***************************************************************************)
C34_NoDeadlock == ~(rx_pc = "cr_deadlock" /\ write_mutex = "rx")

C36_EventKindsDistinct ==
    \A c \in Consumers, d \in Consumers :
        (pc[c] = "returned" /\ pc[d] = "returned"
         /\ ret_view[c].path # ret_view[d].path) =>
            result[c].type # result[d].type

\* a timeout event differs in type from the two other kinds
TimeoutKindDistinct ==
    \A c \in Consumers, d \in Consumers :
        (pc[c] = "returned" /\ pc[d] = "returned"
         /\ ret_view[c].path = "timeout" /\ ret_view[d].path # "timeout") =>
            result[c].type # result[d].type

(***************************************************************************)
(* C37: a grpc_metadata_array_add call that returned 0 stored the copy of  *)
(* (key, value, value_length) at index count, incremented count by exactly *)
(* one and left the earlier entries unchanged, also when the array had to  *)
(* grow.                                                                   *)
(***************************************************************************)
C37_AddPreservesOrder ==
    (arr_last.op = "add" /\ arr_last.ret = 0) =>
        /\ arr_count = arr_last.count + 1
        /\ Len(arr_metadata) = arr_count
        /\ arr_metadata[arr_last.count + 1] =
               [key |-> StringAt(arr_last.key),
                value |-> SubSeq(arr_last.value, 1, arr_last.value_len),
                value_length |-> arr_last.value_len]
        /\ \A i \in 1..arr_last.count :
               arr_metadata[i] = arr_last.metadata[i]
        /\ arr_count <= arr_capacity

\* a successful add to an array that held two entries and had to grow
C37_Witness ==
    /\ arr_last.op = "add" /\ arr_last.ret = 0
    /\ arr_last.count = 2
    /\ arr_last.capacity = 2
    /\ arr_capacity = 4
    /\ arr_metadata[1] # arr_metadata[3]

(***************************************************************************)
(* C39: after any sequence of get, return and cleanup_idle calls,          *)
(* current_connections is at most max_connections, equals the number of    *)
(* entries linked in the pool's list, and every linked entry is a live     *)
(* connection.                                                             *)
(***************************************************************************)
C39_PoolInvariant ==
    pool_state = "ok" =>
        /\ pool_current <= pool_max
        /\ pool_current = Len(pool_connections)
        /\ \A i \in 1..Len(pool_connections) : pool_connections[i].live

\* the part that holds: current_connections never exceeds max_connections
\* and counts the entries of the list that have not been freed
CurrentCountsLive ==
    pool_state = "ok" =>
        /\ pool_current <= pool_max
        /\ pool_current =
              Cardinality({i \in 1..Len(pool_connections) :
                              pool_connections[i].live})

====
